---------------------------- MODULE Spec2Model ----------------------------
(***************************************************************************)
(* Model of the batching-and-dispatch pipeline of minimax_tagger:         *)
(*   - dynamic_chunk_images        (pipeline.py)                          *)
(*   - retry_async                 (utils/concurrency.py)                 *)
(*   - ConcurrencyLimiter and run_tasks_with_limit (utils/concurrency.py) *)
(*   - process_image_batch / process_images_pipeline (pipeline.py)        *)
(*   - call_minimax_vision / extract_prompt_from_response (api.py)        *)
(*                                                                         *)
(* Each component has its own specification (SpecChunk, SpecRetry,        *)
(* SpecLimiter, SpecPipeline, ...); the variables of the components a     *)
(* specification does not run stay at their idle value.                   *)
(***************************************************************************)
EXTENDS Integers, Sequences, FiniteSets, TLC

VARIABLES
    image_paths,   \* the list of paths handed to the chunker / the pipeline
    fs,            \* the file system: what stat() gives for each path
    settings,      \* the process-wide settings object (config.py)
    chunker,       \* the frame of the generator dynamic_chunk_images
    retry,         \* the frame of one call of retry_async
    limiter,       \* run_tasks_with_limit: its ConcurrencyLimiter and its tasks
    pipeline,      \* the frame of process_images_pipeline and its chunk tasks
    manifest,      \* a ManifestManager: its records and the file of its path
    gui,           \* the MainWindow: current record, editors, buttons, threads
    worker,        \* a batch run: BatchProcessingThread, BatchRegenerateThread
                   \* or run_processing
    rate           \* an AsyncRateLimiter and the coroutines that call acquire

vars == <<image_paths, fs, settings, chunker, retry, limiter, pipeline,
         manifest, gui, worker, rate>>

\* what the steps of one component leave alone
NotChunker == <<image_paths, fs, settings, retry, limiter, pipeline, manifest, gui, worker, rate>>
NotRetry == <<image_paths, fs, settings, chunker, limiter, pipeline, manifest, gui, worker, rate>>
NotLimiter == <<image_paths, fs, settings, chunker, retry, pipeline, manifest, gui, worker, rate>>
NotPipeline == <<image_paths, fs, settings, chunker, retry, limiter, manifest, gui, worker, rate>>
NotReview == <<image_paths, fs, settings, chunker, retry, limiter, pipeline, rate>>
NotRate == <<image_paths, fs, settings, chunker, retry, limiter, pipeline, manifest, gui, worker>>
NotManifest == <<NotReview, gui, worker>>
NotWindow == <<NotReview, worker>>

---------------------------------------------------------------------------
(* Bounds of the model *)

\* number of distinct paths
NumFiles == 3
\* longest input list
MaxFiles == 3

Files == 1..NumFiles

\* all sequences over S of length at most n
SeqUpTo(S, n) == UNION {[1..k -> S] : k \in 0..n}

Range(s) == {s[k] : k \in 1..Len(s)}

\* Lists up to a renaming of the paths: the first path is 1 and every later
\* element is a path already listed or the next new one.  Duplicates stay.
Canonical(s) ==
    \A k \in 1..Len(s) :
        \/ s[k] = 1
        \/ \E j \in 1..(k - 1) : s[j] = s[k] \/ s[j] + 1 = s[k]

RECURSIVE Concat(_)
Concat(ss) == IF ss = <<>> THEN <<>> ELSE Head(ss) \o Concat(Tail(ss))

---------------------------------------------------------------------------
(* The file system and the settings *)

\* what image_path.stat() gives: st_size in bytes, or the OSError of a path
\* that cannot be accessed
StatOSError == [error |-> TRUE, st_size |-> 0]
StatOk(n) == [error |-> FALSE, st_size |-> n]
StatResults == {StatOSError, StatOk(1000000), StatOk(5000000), StatOk(12000000)}

\* settings.max_batch_size_bytes: the default, 15 * 1024 * 1024, and a
\* configured lower ceiling of 8 MB
DefaultMaxBatchSizeBytes == 15728640
MaxBatchSizeChoices == {DefaultMaxBatchSizeBytes, 8388608}

\* base_overhead of dynamic_chunk_images
base_overhead == 2048

\* estimate_base64_size: int(file_size * 1.33) + 1024, and 0 when stat()
\* raises OSError (the function catches it and never raises).  For the sizes
\* of the model int(x * 1.33) is (x * 133) \div 100.
estimate_base64_size(image_path) ==
    IF fs[image_path].error
    THEN 0
    ELSE (fs[image_path].st_size * 133) \div 100 + 1024

---------------------------------------------------------------------------
(* dynamic_chunk_images *)

\* the size-skip rule: a single image that cannot fit any batch
TooLarge(image_size, max_bytes) == image_size + base_overhead > max_bytes

\* ChunkStep with the batch-full test looking at the running size alone
ChunkStepLateFlush(st, image_path, image_size, max_bytes) ==
    IF TooLarge(image_size, max_bytes)
    THEN st
    ELSE IF st.current_batch # <<>>
            /\ st.current_size + base_overhead > max_bytes
         THEN [current_batch |-> <<image_path>>,
               current_size  |-> image_size,
               yielded       |-> Append(st.yielded, st.current_batch)]
         ELSE [current_batch |-> Append(st.current_batch, image_path),
               current_size  |-> st.current_size + image_size,
               yielded       |-> st.yielded]

\* ChunkStep losing the image that closes a batch
ChunkStepDropOnFlush(st, image_path, image_size, max_bytes) ==
    IF TooLarge(image_size, max_bytes)
    THEN st
    ELSE IF st.current_batch # <<>>
            /\ st.current_size + image_size + base_overhead > max_bytes
         THEN [current_batch |-> <<>>,
               current_size  |-> 0,
               yielded       |-> Append(st.yielded, st.current_batch)]
         ELSE [current_batch |-> Append(st.current_batch, image_path),
               current_size  |-> st.current_size + image_size,
               yielded       |-> st.yielded]

\* ChunkStep with a skip that also closes the running batch
ChunkStepSkipFlushes(st, image_path, image_size, max_bytes) ==
    IF TooLarge(image_size, max_bytes)
    THEN IF st.current_batch # <<>>
         THEN [current_batch |-> <<>>,
               current_size  |-> 0,
               yielded       |-> Append(st.yielded, st.current_batch)]
         ELSE st
    ELSE IF st.current_batch # <<>>
            /\ st.current_size + image_size + base_overhead > max_bytes
         THEN [current_batch |-> <<image_path>>,
               current_size  |-> image_size,
               yielded       |-> Append(st.yielded, st.current_batch)]
         ELSE [current_batch |-> Append(st.current_batch, image_path),
               current_size  |-> st.current_size + image_size,
               yielded       |-> st.yielded]

\* ChunkStep closing the running batch at every image
ChunkStepOnePerChunk(st, image_path, image_size, max_bytes) ==
    IF TooLarge(image_size, max_bytes)
    THEN st
    ELSE IF st.current_batch # <<>>
         THEN [current_batch |-> <<image_path>>,
               current_size  |-> image_size,
               yielded       |-> Append(st.yielded, st.current_batch)]
         ELSE [current_batch |-> Append(st.current_batch, image_path),
               current_size  |-> st.current_size + image_size,
               yielded       |-> st.yielded]

\* One iteration of the for loop, on the loop state
\* st = [current_batch, current_size, yielded].  The except OSError branch of
\* the loop is never taken: estimate_base64_size returns 0 instead of raising.
ChunkStep(st, image_path, image_size, max_bytes) ==
    IF TooLarge(image_size, max_bytes)
    THEN st
    ELSE IF st.current_batch # <<>>
            /\ st.current_size + image_size + base_overhead > max_bytes
         THEN [current_batch |-> <<image_path>>,
               current_size  |-> image_size,
               yielded       |-> Append(st.yielded, st.current_batch)]
         ELSE [current_batch |-> Append(st.current_batch, image_path),
               current_size  |-> st.current_size + image_size,
               yielded       |-> st.yielded]

\* ChunkFinish without the yield of the last batch
ChunkFinishNoLastYield(st) == st.yielded

\* ChunkFinish yielding the running batch whatever it holds
ChunkFinishAlwaysYields(st) == Append(st.yielded, st.current_batch)

\* the last yield, after the loop
ChunkFinish(st) ==
    IF st.current_batch # <<>>
    THEN Append(st.yielded, st.current_batch)
    ELSE st.yielded

ChunkStart == [current_batch |-> <<>>, current_size |-> 0, yielded |-> <<>>]

IdleChunker ==
    [pc |-> "idle", i |-> 0, max_bytes |-> 0,
     current_batch |-> <<>>, current_size |-> 0, yielded |-> <<>>]

\* the call: an empty list returns at once, otherwise the locals are set
ChunkerEnter ==
    /\ chunker.pc = "call"
    /\ image_paths # <<>>
    /\ chunker' = [pc |-> "loop", i |-> 1,
                   max_bytes |-> settings.max_batch_size_bytes,
                   current_batch |-> ChunkStart.current_batch,
                   current_size  |-> ChunkStart.current_size,
                   yielded       |-> ChunkStart.yielded]
    /\ UNCHANGED NotChunker

ChunkerEmpty ==
    /\ chunker.pc = "call"
    /\ image_paths = <<>>
    /\ chunker' = [chunker EXCEPT !.pc = "done"]
    /\ UNCHANGED NotChunker

ChunkerIterate ==
    /\ chunker.pc = "loop"
    /\ chunker.i <= Len(image_paths)
    /\ LET image_path == image_paths[chunker.i]
           st == ChunkStep([current_batch |-> chunker.current_batch,
                            current_size  |-> chunker.current_size,
                            yielded       |-> chunker.yielded],
                           image_path, estimate_base64_size(image_path),
                           chunker.max_bytes)
       IN chunker' = [chunker EXCEPT !.i = @ + 1,
                                     !.current_batch = st.current_batch,
                                     !.current_size  = st.current_size,
                                     !.yielded       = st.yielded]
    /\ UNCHANGED NotChunker

ChunkerLast ==
    /\ chunker.pc = "loop"
    /\ chunker.i > Len(image_paths)
    /\ chunker' = [chunker EXCEPT
                     !.pc = "done",
                     !.yielded = ChunkFinish([current_batch |-> chunker.current_batch,
                                              current_size  |-> chunker.current_size,
                                              yielded       |-> chunker.yielded])]
    /\ UNCHANGED NotChunker

---------------------------------------------------------------------------
(* retry_async *)

\* largest max_retries tried
MaxRetries == 2

\* the exception classes the wrapped operation raises (all of them
\* subclasses of Exception) and the values it returns
ExceptionKinds == {"ValueError", "ClientError", "TimeoutError"}
ReturnValues == {"v1", "v2"}

\* delays are in milliseconds.  base_delay: 0.01 s (the tests), 1.0 s (the
\* default) and 40 s (reaches the cap on the second retry)
BaseDelayChoices == {10, 1000, 40000}
\* max_delay: float = 60.0
DefaultMaxDelay == 60000
\* max_delay: the default and a cap of 15 s, below the largest base_delay
MaxDelayChoices == {DefaultMaxDelay, 15000}
\* random.random(), in thousandths: a value of [0, 1)
JitterChoices == {0, 500, 999}

RECURSIVE Pow2(_)
Pow2(n) == IF n <= 0 THEN 1 ELSE 2 * Pow2(n - 1)

Min(a, b) == IF a <= b THEN a ELSE b

\* how a call ends: it returns a value, or raises RetryError wrapping a cause
NoOutcome == [kind |-> "none", value |-> "None", cause |-> "None"]
Returned(v) == [kind |-> "return", value |-> v, cause |-> "None"]
RetryError(why, e) == [kind |-> "RetryError", value |-> why, cause |-> e]

IdleRetry ==
    [pc |-> "idle", max_retries |-> 0, base_delay |-> 0, max_delay |-> 0,
     attempt |-> 0, calls |-> 0, sleeps |-> 0, last_exception |-> "None",
     delay |-> 0, prev_delay |-> 0, slept |-> 0, outcome |-> NoOutcome,
     invoked |-> <<>>]

\* the history of a call: what each invocation of func did, the value it
\* returned or the exception it raised, in order
Invoked(r, x) == [r EXCEPT !.invoked = Append(@, x)]

\* the frame on entry: last_exception = None and the for loop over
\* range(max_retries + 1); an empty range falls through to the last raise
RetryEnter(max_retries, base_delay, max_delay) ==
    [IdleRetry EXCEPT
       !.max_retries = max_retries, !.base_delay = base_delay,
       !.max_delay = max_delay,
       !.pc = IF max_retries + 1 <= 0 THEN "raised" ELSE "invoke",
       !.outcome = IF max_retries + 1 <= 0
                   THEN RetryError("unknown", "None")
                   ELSE NoOutcome]

\* RetryOnReturn without the return statement: the value is dropped and the
\* for loop goes on
RetryOnReturnNoReturn(r, v) ==
    IF r.attempt = r.max_retries
    THEN [r EXCEPT !.calls = @ + 1, !.pc = "raised",
                   !.outcome = RetryError("unknown", r.last_exception)]
    ELSE [r EXCEPT !.calls = @ + 1, !.attempt = @ + 1, !.pc = "invoke"]

\* the awaited func returned v: return it
RetryOnReturn(r, v) ==
    [r EXCEPT !.calls = @ + 1, !.pc = "returned", !.outcome = Returned(v)]

\* BackoffDelay without the cap
BackoffDelayUncapped(base_delay, attempt, max_delay) ==
    base_delay * Pow2(attempt)

\* delay = min(base_delay * (2 ** attempt), max_delay)
BackoffDelay(base_delay, attempt, max_delay) ==
    Min(base_delay * Pow2(attempt), max_delay)

\* delay *= (0.5 + random.random() * 0.5), rnd in thousandths
Jittered(delay, rnd) == (delay * (1000 + rnd)) \div 2000

\* RetryOnRaise giving up one attempt early
RetryOnRaiseEarly(r, e, rnd) ==
    IF r.attempt + 1 >= r.max_retries
    THEN [r EXCEPT !.calls = @ + 1, !.last_exception = e,
                   !.pc = "raised",
                   !.outcome = RetryError("exhausted", e)]
    ELSE [r EXCEPT !.calls = @ + 1, !.last_exception = e,
                   !.pc = "sleep", !.sleeps = @ + 1,
                   !.prev_delay = r.delay,
                   !.delay = BackoffDelay(r.base_delay, r.attempt, r.max_delay),
                   !.slept = Jittered(BackoffDelay(r.base_delay, r.attempt,
                                                   r.max_delay), rnd)]

\* RetryOnRaise keeping the first exception: last_exception is set only
\* while it is None, and RetryError wraps it
RetryOnRaiseWrapsFirst(r, e, rnd) ==
    LET first == IF r.last_exception = "None" THEN e ELSE r.last_exception
    IN IF r.attempt = r.max_retries
       THEN [r EXCEPT !.calls = @ + 1, !.last_exception = first,
                      !.pc = "raised",
                      !.outcome = RetryError("exhausted", first)]
       ELSE [r EXCEPT !.calls = @ + 1, !.last_exception = first,
                      !.pc = "sleep", !.sleeps = @ + 1,
                      !.prev_delay = r.delay,
                      !.delay = BackoffDelay(r.base_delay, r.attempt, r.max_delay),
                      !.slept = Jittered(BackoffDelay(r.base_delay, r.attempt,
                                                      r.max_delay), rnd)]

\* RetryOnRaise backing off after the last attempt as well, before it gives
\* up
RetryOnRaiseSleepsLast(r, e, rnd) ==
    IF r.attempt = r.max_retries
    THEN [r EXCEPT !.calls = @ + 1, !.last_exception = e,
                   !.pc = "raised", !.sleeps = @ + 1,
                   !.outcome = RetryError("exhausted", e)]
    ELSE [r EXCEPT !.calls = @ + 1, !.last_exception = e,
                   !.pc = "sleep", !.sleeps = @ + 1,
                   !.prev_delay = r.delay,
                   !.delay = BackoffDelay(r.base_delay, r.attempt, r.max_delay),
                   !.slept = Jittered(BackoffDelay(r.base_delay, r.attempt,
                                                   r.max_delay), rnd)]

\* the awaited func raised e (except Exception): raise RetryError from e on
\* the last attempt, otherwise compute the delay and sleep
RetryOnRaise(r, e, rnd) ==
    IF r.attempt = r.max_retries
    THEN [r EXCEPT !.calls = @ + 1, !.last_exception = e,
                   !.pc = "raised",
                   !.outcome = RetryError("exhausted", e)]
    ELSE [r EXCEPT !.calls = @ + 1, !.last_exception = e,
                   !.pc = "sleep", !.sleeps = @ + 1,
                   !.prev_delay = r.delay,
                   !.delay = BackoffDelay(r.base_delay, r.attempt, r.max_delay),
                   !.slept = Jittered(BackoffDelay(r.base_delay, r.attempt,
                                                   r.max_delay), rnd)]

\* asyncio.sleep(delay) is over: the next iteration of the for loop
RetryOnWake(r) ==
    [r EXCEPT !.attempt = @ + 1, !.pc = "invoke"]

RetryCall ==
    /\ retry.pc = "call"
    /\ retry' = RetryEnter(retry.max_retries, retry.base_delay, retry.max_delay)
    /\ UNCHANGED NotRetry

RetryFuncReturns ==
    /\ retry.pc = "invoke"
    /\ \E v \in ReturnValues : retry' = RetryOnReturn(Invoked(retry, v), v)
    /\ UNCHANGED NotRetry

RetryFuncRaises ==
    /\ retry.pc = "invoke"
    /\ \E e \in ExceptionKinds, rnd \in JitterChoices :
          retry' = RetryOnRaise(Invoked(retry, e), e, rnd)
    /\ UNCHANGED NotRetry

RetryWake ==
    /\ retry.pc = "sleep"
    /\ retry' = RetryOnWake(retry)
    /\ UNCHANGED NotRetry

---------------------------------------------------------------------------
(* AsyncRateLimiter *)

\* the coroutines that call acquire, and the latest reading of the clock
\* of the event loop, in ticks
MaxCallers == 3
MaxClock == 4
Callers == 1..MaxCallers
\* the limiters of the model: AsyncRateLimiter(calls, period)
RateCalls == {1, 2}
RatePeriods == {2, 3}

\* AsyncRateLimiter.__init__, with the clock and the callers of the model:
\* locked and waiters are the state of self._lock, pc[c] is where caller c
\* stands ("idle": no call yet, "waiting": at the lock, "sleeping": in
\* asyncio.sleep inside the async with block, "returned")
NewRate(calls, period) ==
    [calls |-> calls, period |-> period, call_times |-> <<>>,
     locked |-> FALSE, waiters |-> <<>>, clock |-> 0,
     pc |-> [c \in Callers |-> "idle"],
     wake_at |-> [c \in Callers |-> 0]]

IdleRate == NewRate(0, 0)

\* one call of acquire by caller c, up to its first suspension.  A locked
\* lock queues the caller.  Otherwise the caller takes the lock, reads the
\* clock and drops the expired entries of call_times; with the window full
\* it goes to sleep until the oldest entry expires, still holding the lock;
\* with room in the window it records the call and leaves the async with
\* block, which releases the lock
acquire(r, c) ==
    LET now == r.clock
        Recent(t) == now - t < r.period
        kept == SelectSeq(r.call_times, Recent)
    IN IF r.locked
       THEN [r EXCEPT !.waiters = Append(@, c), !.pc[c] = "waiting"]
       ELSE IF Len(kept) >= r.calls /\ r.period - (now - kept[1]) > 0
            THEN [r EXCEPT !.locked = TRUE,
                           !.call_times = kept,
                           !.pc[c] = "sleeping",
                           !.wake_at[c] = now + (r.period - (now - kept[1]))]
            ELSE [r EXCEPT !.call_times = Append(kept, now),
                           !.pc[c] = "returned"]

\* a coroutine calls acquire: for the first time, or again after an
\* earlier call of it returned
RateAcquire(c) ==
    /\ rate.pc[c] \in {"idle", "returned"}
    /\ rate' = acquire(rate, c)
    /\ UNCHANGED NotRate

\* the sleep of caller c is over: the clock has reached wake_at and the
\* caller runs `return await self.acquire()`, inside the async with block
\* of the call that slept
RateWake(c) ==
    /\ rate.pc[c] = "sleeping"
    /\ rate' = acquire([rate EXCEPT !.clock =
                           IF @ < rate.wake_at[c] THEN rate.wake_at[c] ELSE @],
                       c)
    /\ UNCHANGED NotRate

\* time passes
RateTick ==
    /\ rate.clock < MaxClock
    /\ rate' = [rate EXCEPT !.clock = @ + 1]
    /\ UNCHANGED NotRate

---------------------------------------------------------------------------
(* asyncio.Semaphore, as the limiter and the pipeline use it: every task
   tries to acquire once, in its first step; a release hands the permit to
   the longest-waiting task, which resumes in a later step. *)

\* a semaphore that never makes anybody wait
SemNeverLocked(sem) == FALSE

\* Semaphore.locked(): no permit left, or somebody is already waiting
SemLocked(sem) == sem.value <= 0 \/ sem.waiters # <<>>

\* an acquire that forgets to count the permit it takes
SemTakeUncounted(sem) == sem

\* acquire() on an unlocked semaphore: take a permit without suspending
SemTake(sem) == [sem EXCEPT !.value = @ - 1]

\* acquire() on a locked semaphore: queue up and suspend
SemWait(sem, i) == [sem EXCEPT !.waiters = Append(@, i)]

\* a release that never wakes a waiter
SemReleaseNoWake(sem) == [sem EXCEPT !.value = @ + 1]

\* release(): value += 1, then wake the first waiter, who takes the permit
SemRelease(sem) ==
    IF sem.waiters # <<>>
    THEN [sem EXCEPT !.waiters = Tail(@), !.granted = @ \cup {Head(sem.waiters)}]
    ELSE [sem EXCEPT !.value = @ + 1]

NewSemaphore(n) == [value |-> n, waiters |-> <<>>, granted |-> {}]

---------------------------------------------------------------------------
(* ConcurrencyLimiter and run_tasks_with_limit *)

\* most tasks submitted, largest max_concurrency
MaxTasks == 3
MaxConcurrency == 2

\* a submitted task: whether awaiting it suspends the caller (a coroutine
\* function doing I/O) or it runs inline, and whether it ends by raising
TaskKinds == [suspends : BOOLEAN, raises : BOOLEAN]

\* progress_callback: absent, a callback that returns, one that raises
CallbackKinds == {"none", "ok", "raises"}

\* what gather gets from run_single_task: the tuple (index, result, error),
\* or the exception that escaped it
NoTaskResult == [kind |-> "none", index |-> 0, result |-> "None", error |-> "None"]
TaskTuple(i, res, err) == [kind |-> "tuple", index |-> i, result |-> res, error |-> err]
TaskEscaped(i, e) == [kind |-> "exception", index |-> i, result |-> "None", error |-> e]

IdleLimiter ==
    [pc |-> "idle", max_concurrency |-> 0, tasks |-> <<>>, callback |-> "none",
     semaphore |-> NewSemaphore(0), active_tasks |-> 0, completed |-> 0,
     progress |-> <<>>, tpc |-> <<>>, task_results |-> <<>>,
     indexed_results |-> <<>>]

\* ConcurrencyLimiter.__init__ and the locals of run_tasks_with_limit; the
\* coroutines are created and handed to gather
LimiterEnter(l) ==
    [l EXCEPT !.pc = "gather",
              !.semaphore = NewSemaphore(l.max_concurrency),
              !.active_tasks = 0, !.completed = 0,
              !.tpc = [i \in 1..Len(l.tasks) |-> "created"],
              !.task_results = [i \in 1..Len(l.tasks) |-> NoTaskResult]]

\* an __aexit__ that forgets semaphore.release()
LimiterAExitNoRelease(l) == [l EXCEPT !.active_tasks = @ - 1]

\* __aexit__: active_tasks -= 1; semaphore.release()
LimiterAExit(l) ==
    LET sem == SemRelease(l.semaphore)
    IN [l EXCEPT !.active_tasks = @ - 1,
                 !.semaphore = sem,
                 !.tpc = [i \in DOMAIN l.tpc |->
                            IF i \in sem.granted /\ l.tpc[i] = "waiting"
                            THEN "granted" ELSE l.tpc[i]]]

\* completed += 1; if progress_callback: progress_callback(completed, len(tasks))
LimiterProgress(l) ==
    [l EXCEPT !.completed = @ + 1,
              !.progress = IF l.callback = "none" THEN @
                           ELSE Append(@, <<l.completed + 1, Len(l.tasks)>>)]

\* the try/except of run_single_task once the task has returned or raised,
\* then the exit of the async with block.  A callback that raises in the try
\* branch lands in the except branch, where it is called again and its
\* exception leaves run_single_task.
LimiterTaskEnds(l, i) ==
    LET once  == LimiterProgress(l)
        twice == LimiterProgress(once)
        body  == IF l.callback = "raises"
                 THEN IF l.tasks[i].raises
                      THEN [once  EXCEPT !.task_results[i] = TaskEscaped(i, "CallbackError")]
                      ELSE [twice EXCEPT !.task_results[i] = TaskEscaped(i, "CallbackError")]
                 ELSE IF l.tasks[i].raises
                      THEN [once EXCEPT !.task_results[i] = TaskTuple(i, "None", "TaskError")]
                      ELSE [once EXCEPT !.task_results[i] = TaskTuple(i, "result", "None")]
    IN LimiterAExit([body EXCEPT !.tpc[i] = "done"])

\* __aenter__ after the permit is held: active_tasks += 1; then the body,
\* which suspends on a task that awaits I/O and otherwise runs to the end
LimiterAEnter(l, i) ==
    LET held == [l EXCEPT !.active_tasks = @ + 1, !.tpc[i] = "running"]
    IN IF l.tasks[i].suspends THEN held ELSE LimiterTaskEnds(held, i)

\* the sorting of gather's results into indexed_results
LimiterCollect(l) ==
    [l EXCEPT !.pc = "done",
              !.indexed_results =
                 [i \in 1..Len(l.tasks) |->
                    IF \E k \in 1..Len(l.tasks) :
                          /\ l.task_results[k].kind = "tuple"
                          /\ l.task_results[k].index = i
                    THEN LET k == CHOOSE k \in 1..Len(l.tasks) :
                                     /\ l.task_results[k].kind = "tuple"
                                     /\ l.task_results[k].index = i
                         IN <<l.task_results[k].result, l.task_results[k].error>>
                    ELSE <<"None", "NotExecuted">>]]

AllBegun(tpc) == \A i \in DOMAIN tpc : tpc[i] # "created"

LimiterCall ==
    /\ limiter.pc = "call"
    /\ limiter' = LimiterEnter(limiter)
    /\ UNCHANGED NotLimiter

\* the first step of task i, in submission order: async with limiter
LimiterTaskBegin(i) ==
    /\ limiter.pc = "gather"
    /\ limiter.tpc[i] = "created"
    /\ \A j \in 1..(i - 1) : limiter.tpc[j] # "created"
    /\ IF SemLocked(limiter.semaphore)
       THEN limiter' = [limiter EXCEPT !.semaphore = SemWait(@, i),
                                       !.tpc[i] = "waiting"]
       ELSE limiter' = LimiterAEnter([limiter EXCEPT !.semaphore = SemTake(@)], i)
    /\ UNCHANGED NotLimiter

\* a waiting task that was handed a permit resumes
LimiterTaskResume(i) ==
    /\ limiter.pc = "gather"
    /\ limiter.tpc[i] = "granted"
    /\ AllBegun(limiter.tpc)
    /\ limiter' = LimiterAEnter(
                    [limiter EXCEPT !.semaphore.granted = @ \ {i}], i)
    /\ UNCHANGED NotLimiter

\* the awaited task of a running coroutine returns or raises
LimiterTaskFinish(i) ==
    /\ limiter.pc = "gather"
    /\ limiter.tpc[i] = "running"
    /\ AllBegun(limiter.tpc)
    /\ limiter' = LimiterTaskEnds(limiter, i)
    /\ UNCHANGED NotLimiter

\* gather is over: every coroutine has finished
LimiterGathered ==
    /\ limiter.pc = "gather"
    /\ \A i \in DOMAIN limiter.tpc : limiter.tpc[i] = "done"
    /\ limiter' = LimiterCollect(limiter)
    /\ UNCHANGED NotLimiter

---------------------------------------------------------------------------
(* call_minimax_vision, extract_prompt_from_response, process_image_batch *)

\* validate_image_file at dispatch time: the file exists and is not empty
\* (the paths of the model carry a supported suffix)
validate_image_file(image_path) ==
    ~fs[image_path].error /\ fs[image_path].st_size # 0

\* the JSON bodies a request can return: a reply with content, an error
\* payload, a body with neither choices nor reply
GoodResponses == {"content_a", "content_b"}
BadResponses == {"error_payload", "no_content"}
Responses == GoodResponses \cup BadResponses

\* what make_request raises: ClientError (429, raise_for_status, a body that
\* is not JSON) and the timeout of the session
RequestErrors == {"ClientError", "TimeoutError"}
\* random.random() in the backoff of a pipeline run, in thousandths
PipelineJitterChoices == {500}

\* the end of call_minimax_vision: a response, or an exception
ApiReturned(resp) == [raised |-> FALSE, what |-> resp, cause |-> "None"]
ApiRaised(e, cause) == [raised |-> TRUE, what |-> e, cause |-> cause]
NoApi == [raised |-> FALSE, what |-> "None", cause |-> "None"]
\* the import of .api at the top of process_image_batch fails (aiohttp is
\* not installed): ImportError, raised before the try block is entered
ImportFailed == [raised |-> TRUE, what |-> "ImportError", cause |-> "import"]

\* make_request with a reply checked before it is returned: a body without
\* text raises inside retry_async
MakeRequestChecksReply(resp) ==
    IF resp \in BadResponses
    THEN ApiRaised("ValueError", resp)
    ELSE ApiReturned(resp)

\* make_request once the exchange gave a JSON body: result = await
\* response.json(); return result, whatever the body holds
MakeRequest(resp) == ApiReturned(resp)

\* call_minimax_vision as it would be if the images were not validated
\* before the request is built
ApiPrecheckNoValidation(paths) ==
    IF ~settings.valid
    THEN ApiRaised("ValueError", "config")
    ELSE NoApi

\* call_minimax_vision up to the first request: settings.validate(), then
\* validate_image_file for every image; both raise ValueError before
\* retry_async is reached.  NoApi when the request is to be sent.
ApiPrecheck(paths) ==
    IF ~settings.valid
    THEN ApiRaised("ValueError", "config")
    ELSE IF \E k \in 1..Len(paths) : ~validate_image_file(paths[k])
         THEN ApiRaised("ValueError", "invalid_image")
         ELSE NoApi

\* extract_prompt_from_response: the text, or ValueError
Extractable(resp) == resp \in GoodResponses

\* a result tuple (image path, text, success)
ResultTuple(image_path, text, success) ==
    [path |-> image_path, text |-> text, success |-> success]

PromptText(resp) == [msg |-> "prompt", detail |-> resp, cause |-> "None"]
\* error_msg of process_image_batch: the fixed prefix and str(e)
ApiErrorText(e, cause) == [msg |-> "api_call_failed", detail |-> e, cause |-> cause]
\* the message of a batch whose task raised: the fixed prefix and the error
BatchErrorText(e) == [msg |-> "batch_failed", detail |-> e, cause |-> "None"]

\* what a coroutine hands back: a list, or the exception it raised
ReturnedList(l) == [raised |-> FALSE, list |-> l, error |-> "None"]
RaisedError(e) == [raised |-> TRUE, list |-> <<>>, error |-> e]
NoResult == [raised |-> FALSE, list |-> <<>>, error |-> "pending"]

\* process_image_batch handing the text to the first image only
ProcessImageBatchFirstOnly(paths, api) ==
    IF api = ImportFailed
    THEN RaisedError("ImportError")
    ELSE IF api.raised
    THEN ReturnedList([k \in 1..Len(paths) |->
             ResultTuple(paths[k], ApiErrorText(api.what, api.cause), FALSE)])
    ELSE IF ~Extractable(api.what)
         THEN ReturnedList([k \in 1..Len(paths) |->
                  ResultTuple(paths[k], ApiErrorText("ValueError", api.what), FALSE)])
         ELSE ReturnedList([k \in 1..Len(paths) |->
                  IF k = 1
                  THEN ResultTuple(paths[k], PromptText(api.what), TRUE)
                  ELSE ResultTuple(paths[k], ApiErrorText("ValueError", "no_text"),
                                   FALSE)])

\* process_image_batch with the extraction outside the try block
ProcessImageBatchExtractOutside(paths, api) ==
    IF api = ImportFailed
    THEN RaisedError("ImportError")
    ELSE IF api.raised
    THEN ReturnedList([k \in 1..Len(paths) |->
             ResultTuple(paths[k], ApiErrorText(api.what, api.cause), FALSE)])
    ELSE IF ~Extractable(api.what)
         THEN RaisedError("ValueError")
         ELSE ReturnedList([k \in 1..Len(paths) |->
                  ResultTuple(paths[k], PromptText(api.what), TRUE)])

\* process_image_batch, given how call_minimax_vision ended: the import
\* outside the try block, the try block (extract, then one success tuple per
\* image) and the except Exception block (one failure tuple per image)
ProcessImageBatch(paths, api) ==
    IF api = ImportFailed
    THEN RaisedError("ImportError")
    ELSE IF api.raised
    THEN ReturnedList([k \in 1..Len(paths) |->
             ResultTuple(paths[k], ApiErrorText(api.what, api.cause), FALSE)])
    ELSE IF ~Extractable(api.what)
         THEN ReturnedList([k \in 1..Len(paths) |->
                  ResultTuple(paths[k], ApiErrorText("ValueError", api.what), FALSE)])
         ELSE IF Len(paths) = 1
              THEN ReturnedList(<<ResultTuple(paths[1], PromptText(api.what), TRUE)>>)
              ELSE ReturnedList([k \in 1..Len(paths) |->
                       ResultTuple(paths[k], PromptText(api.what), TRUE)])

---------------------------------------------------------------------------
(* process_images_pipeline *)

\* list(dynamic_chunk_images(image_paths))
RECURSIVE ChunkFold(_, _, _)
ChunkFold(st, paths, max_bytes) ==
    IF paths = <<>>
    THEN st
    ELSE ChunkFold(ChunkStep(st, Head(paths), estimate_base64_size(Head(paths)),
                             max_bytes),
                   Tail(paths), max_bytes)

DynamicChunkImages(paths) ==
    IF paths = <<>>
    THEN <<>>
    ELSE ChunkFinish(ChunkFold(ChunkStart, paths, settings.max_batch_size_bytes))

IdlePipeline ==
    [pc |-> "idle", api_importable |-> TRUE, batches |-> <<>>,
     semaphore |-> NewSemaphore(0), tpc |-> <<>>, frame |-> <<>>,
     api |-> <<>>, dispatch |-> <<>>, batch_results |-> <<>>,
     all_results |-> <<>>, progress |-> <<>>,
     api_calls |-> <<>>, attempts |-> <<>>, last_reply |-> <<>>]

\* an empty input returns [] at once; otherwise the batches, the semaphore
\* and one task per batch, handed to gather
PipelineEnter(p) ==
    IF image_paths = <<>>
    THEN [p EXCEPT !.pc = "done"]
    ELSE LET batches == DynamicChunkImages(image_paths)
             n == Len(batches)
         IN [p EXCEPT !.pc = "gather",
                      !.batches = batches,
                      !.semaphore = NewSemaphore(settings.concurrency),
                      !.tpc = [i \in 1..n |-> "created"],
                      !.frame = [i \in 1..n |-> IdleRetry],
                      !.api = [i \in 1..n |-> NoApi],
                      !.dispatch = [i \in 1..n |-> NoResult],
                      !.batch_results = [i \in 1..n |-> NoResult],
                      !.api_calls = [i \in 1..n |-> <<>>],
                      !.attempts = [i \in 1..n |-> 0],
                      !.last_reply = [i \in 1..n |-> "None"]]

\* process_single_batch: what process_image_batch returned, or failure
\* tuples for the batch if it raised
ProcessSingleBatch(batch, r) ==
    IF r.raised
    THEN ReturnedList([k \in 1..Len(batch) |->
             ResultTuple(batch[k], BatchErrorText(r.error), FALSE)])
    ELSE r

\* the dispatch of batch i is over with api: process_image_batch returns
\* (the frame of its retry_async is gone), process_single_batch returns, the
\* async with block releases the permit
PipelineDispatchEnds(p, i, api) ==
    LET r   == ProcessImageBatch(p.batches[i], api)
        sem == SemRelease(p.semaphore)
    IN [p EXCEPT !.api[i] = api,
                 !.frame[i] = IdleRetry,
                 !.dispatch[i] = r,
                 !.batch_results[i] = ProcessSingleBatch(p.batches[i], r),
                 !.semaphore = sem,
                 !.tpc = [j \in DOMAIN p.tpc |->
                            IF j = i THEN "done"
                            ELSE IF j \in sem.granted /\ p.tpc[j] = "waiting"
                                 THEN "granted" ELSE p.tpc[j]]]

\* PipelineDispatch with one call of call_minimax_vision per image
PipelineDispatchPerImage(p, i) ==
    LET pre == ApiPrecheck(p.batches[i])
        fr  == RetryEnter(settings.retry_max, settings.retry_delay, DefaultMaxDelay)
        called == [p EXCEPT !.api_calls[i] =
                      [k \in 1..Len(p.batches[i]) |-> <<p.batches[i][k]>>]]
    IN IF ~p.api_importable
       THEN PipelineDispatchEnds(p, i, ImportFailed)
       ELSE IF pre.raised
       THEN PipelineDispatchEnds(called, i, pre)
       ELSE IF fr.pc = "raised"
            THEN PipelineDispatchEnds([called EXCEPT !.frame[i] = fr], i,
                                      ApiRaised("RetryError", fr.outcome.cause))
            ELSE [called EXCEPT !.frame[i] = fr, !.tpc[i] = "inflight",
                                !.attempts[i] = @ + 1]

\* the permit is held: process_image_batch calls call_minimax_vision with
\* the images of the batch (api_calls keeps the argument of every call),
\* which fails its checks, or enters retry_async and sends the first request
\* (attempts counts the requests sent)
PipelineDispatch(p, i) ==
    LET pre == ApiPrecheck(p.batches[i])
        fr  == RetryEnter(settings.retry_max, settings.retry_delay, DefaultMaxDelay)
        called == [p EXCEPT !.api_calls[i] = Append(@, p.batches[i])]
    IN IF ~p.api_importable
       THEN PipelineDispatchEnds(p, i, ImportFailed)
       ELSE IF pre.raised
       THEN PipelineDispatchEnds(called, i, pre)
       ELSE IF fr.pc = "raised"
            THEN PipelineDispatchEnds([called EXCEPT !.frame[i] = fr], i,
                                      ApiRaised("RetryError", fr.outcome.cause))
            ELSE [called EXCEPT !.frame[i] = fr, !.tpc[i] = "inflight",
                                !.attempts[i] = @ + 1]

\* make_request of batch i ended with out, a returned body or an exception:
\* retry_async returns the body, sleeps before the next attempt, or gives up
PipelineRequestEnds(p, i, out, rnd) ==
    LET fr0 == Invoked(p.frame[i], out.what)
        fr  == IF out.raised
               THEN RetryOnRaise(fr0, out.what, rnd)
               ELSE RetryOnReturn(fr0, out.what)
        q   == [p EXCEPT !.frame[i] = fr]
    IN IF fr.pc = "returned"
       THEN PipelineDispatchEnds(q, i, ApiReturned(fr.outcome.value))
       ELSE IF fr.pc = "raised"
            THEN PipelineDispatchEnds(q, i, ApiRaised("RetryError", fr.outcome.cause))
            ELSE [q EXCEPT !.tpc[i] = "sleeping"]

\* one pass of the result loop over batch i
CollectOne(batch, batch_result) ==
    IF batch_result.raised
    THEN [k \in 1..Len(batch) |->
             ResultTuple(batch[k], BatchErrorText(batch_result.error), FALSE)]
    ELSE IF batch_result.list # <<>>
         THEN batch_result.list
         ELSE <<>>

RECURSIVE CollectFrom(_, _, _)
CollectFrom(batches, batch_results, i) ==
    IF i > Len(batches)
    THEN <<>>
    ELSE CollectOne(batches[i], batch_results[i])
           \o CollectFrom(batches, batch_results, i + 1)

RECURSIVE CollectUntilFailure(_, _, _)
CollectUntilFailure(batches, batch_results, i) ==
    IF i > Len(batches)
    THEN <<>>
    ELSE IF \E k \in 1..Len(batch_results[i].list) :
               ~batch_results[i].list[k].success
         THEN <<>>
         ELSE CollectOne(batches[i], batch_results[i])
                \o CollectUntilFailure(batches, batch_results, i + 1)

\* a result loop that a failed batch ends
PipelineCollectStopAtFailure(p) ==
    [p EXCEPT !.pc = "done",
              !.progress = [i \in 1..Len(p.batches) |-> <<i, Len(p.batches)>>],
              !.all_results = CollectUntilFailure(p.batches, p.batch_results, 1)]

\* a result loop that counts a batch only after reporting it
PipelineCollectCountsLate(p) ==
    [p EXCEPT !.pc = "done",
              !.progress = [i \in 1..Len(p.batches) |-> <<i - 1, Len(p.batches)>>],
              !.all_results = CollectFrom(p.batches, p.batch_results, 1)]

\* a result loop that walks the batches from the last to the first
RECURSIVE CollectBackFrom(_, _, _)
CollectBackFrom(batches, batch_results, i) ==
    IF i < 1
    THEN <<>>
    ELSE CollectOne(batches[i], batch_results[i])
           \o CollectBackFrom(batches, batch_results, i - 1)

PipelineCollectBackwards(p) ==
    [p EXCEPT !.pc = "done",
              !.progress = [i \in 1..Len(p.batches) |-> <<i, Len(p.batches)>>],
              !.all_results = CollectBackFrom(p.batches, p.batch_results,
                                              Len(p.batches))]

\* the loop after gather: progress_wrapper(completed_batches, total_batches)
\* for every batch (it logs, and calls progress_callback when there is one),
\* and all_results
PipelineCollect(p) ==
    [p EXCEPT !.pc = "done",
              !.progress = [i \in 1..Len(p.batches) |-> <<i, Len(p.batches)>>],
              !.all_results = CollectFrom(p.batches, p.batch_results, 1)]

PipelineCall ==
    /\ pipeline.pc = "call"
    /\ pipeline' = PipelineEnter(pipeline)
    /\ UNCHANGED NotPipeline

\* the first step of the task of batch i, in submission order
PipelineTaskBegin(i) ==
    /\ pipeline.pc = "gather"
    /\ pipeline.tpc[i] = "created"
    /\ \A j \in 1..(i - 1) : pipeline.tpc[j] # "created"
    /\ IF SemLocked(pipeline.semaphore)
       THEN pipeline' = [pipeline EXCEPT !.semaphore = SemWait(@, i),
                                         !.tpc[i] = "waiting"]
       ELSE pipeline' = PipelineDispatch(
                          [pipeline EXCEPT !.semaphore = SemTake(@)], i)
    /\ UNCHANGED NotPipeline

\* a waiting task that was handed a permit resumes
PipelineTaskResume(i) ==
    /\ pipeline.pc = "gather"
    /\ pipeline.tpc[i] = "granted"
    /\ AllBegun(pipeline.tpc)
    /\ pipeline' = PipelineDispatch(
                      [pipeline EXCEPT !.semaphore.granted = @ \ {i}], i)
    /\ UNCHANGED NotPipeline

\* the request of batch i returns a JSON body: retry_async returns it
PipelineRequestReturns(i) ==
    /\ pipeline.pc = "gather"
    /\ pipeline.tpc[i] = "inflight"
    /\ AllBegun(pipeline.tpc)
    /\ \E resp \in Responses, rnd \in PipelineJitterChoices :
          pipeline' = PipelineRequestEnds(
                         [pipeline EXCEPT !.last_reply[i] = resp], i,
                         MakeRequest(resp), rnd)
    /\ UNCHANGED NotPipeline

\* the request of batch i raises: retry_async sleeps, or gives up
PipelineRequestRaises(i) ==
    /\ pipeline.pc = "gather"
    /\ pipeline.tpc[i] = "inflight"
    /\ AllBegun(pipeline.tpc)
    /\ \E e \in RequestErrors, rnd \in PipelineJitterChoices :
          pipeline' = PipelineRequestEnds(
                         [pipeline EXCEPT !.last_reply[i] = e], i,
                         ApiRaised(e, "request"), rnd)
    /\ UNCHANGED NotPipeline

\* the backoff sleep of batch i is over: the next request is sent
PipelineRetryWake(i) ==
    /\ pipeline.pc = "gather"
    /\ pipeline.tpc[i] = "sleeping"
    /\ pipeline' = [pipeline EXCEPT !.frame[i] = RetryOnWake(@),
                                    !.tpc[i] = "inflight",
                                    !.attempts[i] = @ + 1]
    /\ UNCHANGED NotPipeline

\* gather is over: every batch task has finished
PipelineGathered ==
    /\ pipeline.pc = "gather"
    /\ \A i \in DOMAIN pipeline.tpc : pipeline.tpc[i] = "done"
    /\ pipeline' = PipelineCollect(pipeline)
    /\ UNCHANGED NotPipeline

---------------------------------------------------------------------------
(* Texts: a str is the sequence of its characters.  A word of letters that
   holds no delimiter, quote, line break or blank, such as a column name, is
   written as one element. *)

CR == "\r"
LF == "\n"
SPACE == " "
COMMA == ","
QUOTE == "\""

\* str.strip(): leading and trailing whitespace removed
Whitespace == {SPACE, CR, LF}

RECURSIVE lstrip(_)
lstrip(t) ==
    IF t # <<>> /\ Head(t) \in Whitespace THEN lstrip(Tail(t)) ELSE t

RECURSIVE rstrip(_)
rstrip(t) ==
    IF t # <<>> /\ t[Len(t)] \in Whitespace
    THEN rstrip(SubSeq(t, 1, Len(t) - 1))
    ELSE t

strip(t) == rstrip(lstrip(t))

DigitChars == <<"0", "1", "2", "3", "4", "5", "6", "7", "8", "9">>
IsDigit(c) == \E d \in 1..10 : DigitChars[d] = c
DigitValue(c) == (CHOOSE d \in 1..10 : DigitChars[d] = c) - 1

RECURSIVE Decimal(_)
Decimal(n) ==
    IF n < 10
    THEN <<DigitChars[n + 1]>>
    ELSE Decimal(n \div 10) \o <<DigitChars[(n % 10) + 1]>>

\* str(retry_cnt) of to_dict
str(n) == IF n < 0 THEN <<"-">> \o Decimal(0 - n) ELSE Decimal(n)

RECURSIVE DecimalValue(_)
DecimalValue(t) ==
    IF t = <<>> THEN 0
    ELSE 10 * DecimalValue(SubSeq(t, 1, Len(t) - 1)) + DigitValue(t[Len(t)])

\* int(text) of from_dict: whitespace around the number, a sign and single
\* underscores between digits are accepted, anything else raises ValueError
IntError == [ok |-> FALSE, value |-> 0]
UNDERSCORE == "_"
IsDigits(t) ==
    /\ t # <<>>
    /\ IsDigit(t[1]) /\ IsDigit(t[Len(t)])
    /\ \A k \in 1..Len(t) : IsDigit(t[k]) \/ t[k] = UNDERSCORE
    /\ \A k \in 1..(Len(t) - 1) : ~(t[k] = UNDERSCORE /\ t[k + 1] = UNDERSCORE)
int(t) ==
    LET s == strip(t)
        signed == s # <<>> /\ Head(s) \in {"-", "+"}
        digits == IF signed THEN Tail(s) ELSE s
        value == DecimalValue(SelectSeq(digits, IsDigit))
    IN IF IsDigits(digits)
       THEN [ok |-> TRUE,
             value |-> IF signed /\ Head(s) = "-" THEN 0 - value ELSE value]
       ELSE IntError

---------------------------------------------------------------------------
(* The manifest: ImageRecord, ProcessStatus and the CSV file *)

\* ProcessStatus: the members and their values
ProcessStatus == {"pending", "approved", "rejected"}
PENDING == "pending"
APPROVED == "approved"
REJECTED == "rejected"

StatusValue(status) ==
    CASE status = PENDING  -> <<"pending">>
      [] status = APPROVED -> <<"approved">>
      [] status = REJECTED -> <<"rejected">>

\* ProcessStatus(value): the member with that value, ValueError otherwise
IsStatusValue(t) == \E s \in ProcessStatus : StatusValue(s) = t
StatusOf(t) == CHOOSE s \in ProcessStatus : StatusValue(s) = t

\* the attribute temp_new_prompt is set on a record by the regeneration
\* callbacks only: <<>> when the record has no such attribute, <<text>> when
\* it has
NoAttr == <<>>
Attr(t) == <<t>>

\* ImageRecord(filepath, prompt_en="", prompt_cn="", status=PENDING,
\* retry_cnt=0)
ImageRecord(filepath, prompt_en, prompt_cn, status, retry_cnt) ==
    [filepath |-> filepath, prompt_en |-> prompt_en, prompt_cn |-> prompt_cn,
     status |-> status, retry_cnt |-> retry_cnt, temp_new_prompt |-> NoAttr]

\* the five fields of a record, which are what the manifest schema has
Fields(r) ==
    ImageRecord(r.filepath, r.prompt_en, r.prompt_cn, r.status, r.retry_cnt)

FieldsOf(records) == [k \in 1..Len(records) |-> Fields(records[k])]

fieldnames ==
    <<<<"filepath">>, <<"prompt_en">>, <<"prompt_cn">>, <<"status">>,
      <<"retry_cnt">>>>

\* ImageRecord.to_dict, as the row of its values in the order of fieldnames
to_dict(r) ==
    <<r.filepath, r.prompt_en, r.prompt_cn, StatusValue(r.status),
      str(r.retry_cnt)>>

\* csv.writer with the default dialect: a field is quoted when it holds the
\* delimiter, the quote character or a line break, quotes inside are doubled
NeedsQuotes(field) ==
    \E k \in 1..Len(field) : field[k] \in {COMMA, QUOTE, CR, LF}

RECURSIVE DoubleQuotes(_)
DoubleQuotes(field) ==
    IF field = <<>> THEN <<>>
    ELSE (IF Head(field) = QUOTE THEN <<QUOTE, QUOTE>> ELSE <<Head(field)>>)
             \o DoubleQuotes(Tail(field))

WriteField(field) ==
    IF NeedsQuotes(field)
    THEN <<QUOTE>> \o DoubleQuotes(field) \o <<QUOTE>>
    ELSE field

RECURSIVE JoinFields(_)
JoinFields(row) ==
    IF Len(row) = 1 THEN WriteField(row[1])
    ELSE WriteField(Head(row)) \o <<COMMA>> \o JoinFields(Tail(row))

\* writerow: the fields and the line terminator "\r\n"; the file is opened
\* with newline='', so the characters reach the disk as they are
writerow(row) == JoinFields(row) \o <<CR, LF>>

RECURSIVE WriteRows(_)
WriteRows(records) ==
    IF records = <<>> THEN <<>>
    ELSE writerow(to_dict(Head(records))) \o WriteRows(Tail(records))

\* the text save_to_csv writes: the header and one row per record
CsvText(records) == writerow(fieldnames) \o WriteRows(records)

\* the text-mode file of load_from_csv is opened without newline='': a
\* "\r\n" and a lone "\r" are read as "\n", also inside a quoted field
RECURSIVE UniversalNewlines(_)
UniversalNewlines(cs) ==
    IF cs = <<>> THEN <<>>
    ELSE IF Head(cs) = CR
         THEN <<LF>> \o UniversalNewlines(
                            IF Len(cs) >= 2 /\ cs[2] = LF
                            THEN SubSeq(cs, 3, Len(cs))
                            ELSE Tail(cs))
         ELSE <<Head(cs)>> \o UniversalNewlines(Tail(cs))

\* csv.reader with the default dialect, character by character: st is the
\* state of the parser, field and row what was read of the current field
\* and row, rows the rows that are complete.  An empty line gives no row.
RECURSIVE ReadRows(_, _, _, _, _)
ReadRows(cs, st, field, row, rows) ==
    IF cs = <<>>
    THEN IF st = "START_RECORD" THEN rows
         ELSE Append(rows, Append(row, field))
    ELSE LET c == Head(cs)
             rest == Tail(cs)
             EndRecord == ReadRows(rest, "START_RECORD", <<>>, <<>>,
                                   Append(rows, Append(row, field)))
             EndField == ReadRows(rest, "START_FIELD", <<>>,
                                  Append(row, field), rows)
         IN CASE st = "START_RECORD" ->
                    IF c \in {CR, LF}
                    THEN ReadRows(rest, "START_RECORD", <<>>, <<>>, rows)
                    ELSE ReadRows(cs, "START_FIELD", <<>>, <<>>, rows)
              [] st = "START_FIELD" ->
                    IF c \in {CR, LF} THEN EndRecord
                    ELSE IF c = QUOTE
                    THEN ReadRows(rest, "IN_QUOTED_FIELD", <<>>, row, rows)
                    ELSE IF c = COMMA THEN EndField
                    ELSE ReadRows(rest, "IN_FIELD", <<c>>, row, rows)
              [] st = "IN_FIELD" ->
                    IF c \in {CR, LF} THEN EndRecord
                    ELSE IF c = COMMA THEN EndField
                    ELSE ReadRows(rest, "IN_FIELD", Append(field, c), row, rows)
              [] st = "IN_QUOTED_FIELD" ->
                    IF c = QUOTE
                    THEN ReadRows(rest, "QUOTE_IN_QUOTED_FIELD", field, row, rows)
                    ELSE ReadRows(rest, "IN_QUOTED_FIELD", Append(field, c),
                                  row, rows)
              [] st = "QUOTE_IN_QUOTED_FIELD" ->
                    IF c = QUOTE
                    THEN ReadRows(rest, "IN_QUOTED_FIELD", Append(field, c),
                                  row, rows)
                    ELSE IF c = COMMA THEN EndField
                    ELSE IF c \in {CR, LF} THEN EndRecord
                    ELSE ReadRows(rest, "IN_FIELD", Append(field, c), row, rows)

\* csv.DictReader: the first row names the columns; a cell of a later row is
\* <<text>>, or <<>> (None) where the row is shorter than the header
HasKey(names, key) == \E k \in 1..Len(names) : names[k] = key
KeyIndex(names, key) ==
    CHOOSE k \in 1..Len(names) :
        names[k] = key /\ \A j \in (k + 1)..Len(names) : names[j] # key
Cell(names, row, key) ==
    IF KeyIndex(names, key) <= Len(row)
    THEN <<row[KeyIndex(names, key)]>>
    ELSE <<>>

\* data.get(key, default)
Get(names, row, key, default) ==
    IF HasKey(names, key) THEN Cell(names, row, key) ELSE <<default>>

\* ImageRecord.from_dict as it would be if a status that is no member of
\* ProcessStatus were read as pending
from_dict_defaulting(names, row) ==
    LET status == Get(names, row, fieldnames[4], StatusValue(PENDING))
        retry_cnt == Get(names, row, fieldnames[5], <<"0">>)
        text(cell) == IF cell = <<>> THEN <<"None">> ELSE cell[1]
    IN IF retry_cnt # <<>> /\ int(retry_cnt[1]).ok
       THEN <<ImageRecord(text(Get(names, row, fieldnames[1], <<>>)),
                          text(Get(names, row, fieldnames[2], <<>>)),
                          text(Get(names, row, fieldnames[3], <<>>)),
                          IF status # <<>> /\ IsStatusValue(status[1])
                          THEN StatusOf(status[1]) ELSE PENDING,
                          int(retry_cnt[1]).value)>>
       ELSE <<>>

\* ImageRecord.from_dict on a row: <<record>>, or <<>> where it raises (a
\* status that is no member of ProcessStatus, a retry_cnt that int()
\* rejects, None for one of the two); a column the file does not have
\* takes its default
from_dict(names, row) ==
    LET status == Get(names, row, fieldnames[4], StatusValue(PENDING))
        retry_cnt == Get(names, row, fieldnames[5], <<"0">>)
        text(cell) == IF cell = <<>> THEN <<"None">> ELSE cell[1]
    IN IF /\ status # <<>> /\ IsStatusValue(status[1])
          /\ retry_cnt # <<>> /\ int(retry_cnt[1]).ok
       THEN <<ImageRecord(text(Get(names, row, fieldnames[1], <<>>)),
                          text(Get(names, row, fieldnames[2], <<>>)),
                          text(Get(names, row, fieldnames[3], <<>>)),
                          StatusOf(status[1]),
                          int(retry_cnt[1]).value)>>
       ELSE <<>>

RECURSIVE FromRows(_, _)
FromRows(names, rows) ==
    IF rows = <<>> THEN <<>>
    ELSE from_dict(names, Head(rows)) \o FromRows(names, Tail(rows))

\* the records load_from_csv builds from the text of the file: a row that
\* from_dict rejects is reported and left out
ParseCsv(cs) ==
    LET rows == ReadRows(UniversalNewlines(cs), "START_RECORD", <<>>, <<>>, <<>>)
    IN IF rows = <<>> THEN <<>> ELSE FromRows(Head(rows), Tail(rows))

\* ManifestManager(manifest_path): no record yet; the file of manifest_path
\* may not exist
NoFile == [exists |-> FALSE, text |-> <<>>]
FileWith(cs) == [exists |-> TRUE, text |-> cs]

ManifestManager == [records |-> <<>>, file |-> NoFile]

\* load_from_csv: nothing happens when the file does not exist
load_from_csv(m) ==
    IF ~m.file.exists THEN m
    ELSE [m EXCEPT !.records = ParseCsv(m.file.text)]

\* save_to_csv
save_to_csv(m) == [m EXCEPT !.file = FileWith(CsvText(m.records))]

\* the index of the first record with that filepath, 0 when there is none
FirstWith(records, filepath) ==
    IF \E k \in 1..Len(records) : records[k].filepath = filepath
    THEN CHOOSE k \in 1..Len(records) :
            /\ records[k].filepath = filepath
            /\ \A j \in 1..(k - 1) : records[j].filepath # filepath
    ELSE 0

\* add_or_update_record as it would be if an update rebuilt the record
add_or_update_record_rebuilding(m, filepath, prompt_en, prompt_cn, status) ==
    LET k == FirstWith(m.records, filepath)
    IN IF k # 0
       THEN [m EXCEPT !.records[k] =
                          ImageRecord(filepath,
                                      IF prompt_en # <<>> THEN prompt_en
                                      ELSE @.prompt_en,
                                      IF prompt_cn # <<>> THEN prompt_cn
                                      ELSE @.prompt_cn,
                                      status, 0)]
       ELSE [m EXCEPT !.records =
                          Append(@, ImageRecord(filepath, prompt_en, prompt_cn,
                                                status, 0))]

\* add_or_update_record: the first record with the filepath gets the
\* non-empty prompts and the status, its retry_cnt stays; without such a
\* record a new one is appended
add_or_update_record(m, filepath, prompt_en, prompt_cn, status) ==
    LET k == FirstWith(m.records, filepath)
    IN IF k # 0
       THEN [m EXCEPT !.records[k].prompt_en =
                          IF prompt_en # <<>> THEN prompt_en ELSE @,
                      !.records[k].prompt_cn =
                          IF prompt_cn # <<>> THEN prompt_cn ELSE @,
                      !.records[k].status = status]
       ELSE [m EXCEPT !.records =
                          Append(@, ImageRecord(filepath, prompt_en, prompt_cn,
                                                status, 0))]

\* update_record_status
update_record_status(m, filepath, status) ==
    LET k == FirstWith(m.records, filepath)
    IN IF k # 0 THEN [m EXCEPT !.records[k].status = status] ELSE m

\* increment_retry_count
increment_retry_count(m, filepath) ==
    LET k == FirstWith(m.records, filepath)
    IN IF k # 0 THEN [m EXCEPT !.records[k].retry_cnt = @ + 1] ELSE m

\* import_from_directory: found is what the globs give, pattern after
\* pattern, as paths relative to the directory; a path without a record is
\* added as a pending record without prompts
RECURSIVE import_from_directory(_, _)
import_from_directory(m, found) ==
    IF found = <<>> THEN m
    ELSE import_from_directory(
             IF FirstWith(m.records, Head(found)) # 0 THEN m
             ELSE add_or_update_record(m, Head(found), <<>>, <<>>, PENDING),
             Tail(found))

---------------------------------------------------------------------------
(* The manifest manager as its callers drive it *)

\* most records of a manifest
MaxRecords == 2
\* retry_cnt is counted up to here
MaxRetryCnt == 1

\* relative paths of images; a file name may hold a line break
Filepaths == {<<"x">>, <<"y", CR>>, <<"y", LF>>}
\* prompt texts handed to add_or_update_record
PromptChoices == {<<>>, <<"a", COMMA, QUOTE>>}
PromptCnChoices == {<<>>}

\* what the globs of import_from_directory find: every file once
Found(n) == {s \in SeqUpTo(Filepaths, n) :
                \A j, k \in 1..Len(s) : s[j] = s[k] => j = k}

IdleManifest == ManifestManager

\* a caller hands add_or_update_record a path of paths and a text of prompts
AddOrUpdate(paths, prompts) ==
    \E filepath \in paths, prompt_en \in prompts,
       prompt_cn \in PromptCnChoices, status \in ProcessStatus :
        /\ \/ FirstWith(manifest.records, filepath) # 0
           \/ Len(manifest.records) < MaxRecords
        /\ manifest' = add_or_update_record(manifest, filepath, prompt_en,
                                            prompt_cn, status)
        /\ UNCHANGED NotManifest

ManifestImport ==
    \E found \in Found(MaxRecords) :
        /\ Len(import_from_directory(manifest, found).records) <= MaxRecords
        /\ manifest' = import_from_directory(manifest, found)
        /\ UNCHANGED NotManifest

ManifestAddOrUpdate == AddOrUpdate(Filepaths, PromptChoices)

UpdateStatus(paths) ==
    \E filepath \in paths, status \in ProcessStatus :
        /\ manifest' = update_record_status(manifest, filepath, status)
        /\ UNCHANGED NotManifest

ManifestUpdateStatus == UpdateStatus(Filepaths)

IncrementRetry(paths) ==
    \E filepath \in paths :
        /\ \A k \in 1..Len(manifest.records) :
              manifest.records[k].retry_cnt < MaxRetryCnt
        /\ manifest' = increment_retry_count(manifest, filepath)
        /\ UNCHANGED NotManifest

ManifestIncrementRetry == IncrementRetry(Filepaths)

ManifestSave ==
    /\ manifest' = save_to_csv(manifest)
    /\ UNCHANGED NotManifest

ManifestLoad ==
    /\ manifest' = load_from_csv(manifest)
    /\ UNCHANGED NotManifest

---------------------------------------------------------------------------
(* Paths: str(Path(text)) and str(path.relative_to(base)) *)

SLASH == "/"
DOT == "."

\* the parts of a path text between its slashes
RECURSIVE SplitPath(_, _, _)
SplitPath(t, part, parts) ==
    IF t = <<>> THEN Append(parts, part)
    ELSE IF Head(t) = SLASH
         THEN SplitPath(Tail(t), <<>>, Append(parts, part))
         ELSE SplitPath(Tail(t), Append(part, Head(t)), parts)

RECURSIVE JoinPath(_)
JoinPath(parts) ==
    IF Len(parts) = 1 THEN parts[1]
    ELSE parts[1] \o <<SLASH>> \o JoinPath(Tail(parts))

\* what pathlib keeps of a part: empty parts and "." are dropped
KeptPart(part) == part # <<>> /\ part # <<DOT>>

\* str(Path(filepath)), and str((base / filepath).relative_to(base)), of a
\* relative filepath
PathStr(filepath) ==
    LET parts == SelectSeq(SplitPath(filepath, <<>>, <<>>), KeptPart)
    IN IF parts = <<>> THEN <<DOT>> ELSE JoinPath(parts)

---------------------------------------------------------------------------
(* MainWindow: the review handlers.  A window w is [manifest, gui]: the
   ManifestManager of the window and the widgets and attributes the handlers
   read and write. *)

\* before a manifest is shown: no current record, empty editors, the approve
\* and reject buttons as created (enabled), no regeneration thread
IdleGui ==
    [current_record |-> 0,
     current_prompt_edit |-> <<>>,
     generated_prompt_edit |-> <<>>,
     review_enabled |-> TRUE,
     regen_kind |-> "none",
     regen_todo |-> <<>>]

\* on_prompt_text_changed, the slot of current_prompt_edit.textChanged: the
\* stripped text of the editor goes to the current record when it differs,
\* a non-empty text marks the record approved, and the manifest is saved
on_prompt_text_changed(w) ==
    LET k == w.gui.current_record
        current_text == strip(w.gui.current_prompt_edit)
        m == w.manifest
    IN IF k = 0 THEN w
       ELSE IF current_text # m.records[k].prompt_en
       THEN [w EXCEPT !.manifest =
                 save_to_csv(
                     [m EXCEPT !.records[k].prompt_en = current_text,
                               !.records[k].status =
                                   IF current_text # <<>> THEN APPROVED ELSE @])]
       ELSE w

\* current_prompt_edit.setPlainText(text), or the user typing: the editor
\* holds the text and textChanged fires
SetCurrentPrompt(w, text) ==
    on_prompt_text_changed([w EXCEPT !.gui.current_prompt_edit = text])

\* on_image_selected(item, previous) for the item of record k (k = 0: no
\* item)
on_image_selected(w, k) ==
    IF k = 0 THEN [w EXCEPT !.gui.current_record = 0]
    ELSE LET w1 == SetCurrentPrompt([w EXCEPT !.gui.current_record = k],
                                    w.manifest.records[k].prompt_en)
             temp == w1.manifest.records[k].temp_new_prompt
             staged == temp # NoAttr /\ temp[1] # <<>>
         IN [w1 EXCEPT !.gui.generated_prompt_edit =
                           IF staged THEN temp[1] ELSE <<>>,
                       !.gui.review_enabled = staged]

\* _restore_current_selection(filepath): the first item whose record has
\* the filepath is made current and on_image_selected runs for it
restore_current_selection(w, filepath) ==
    IF FirstWith(w.manifest.records, filepath) # 0
    THEN on_image_selected(w, FirstWith(w.manifest.records, filepath))
    ELSE w

\* on_image_regenerated as it would be if a success replaced the prompt
\* of the record and sent the record back to pending
on_image_regenerated_replacing(w, k, prompt, success) ==
    LET rel_path == PathStr(w.manifest.records[k].filepath)
        j == FirstWith(w.manifest.records, rel_path)
    IN IF j = 0 THEN w
       ELSE IF success
       THEN LET w1 == [w EXCEPT
                         !.manifest.records[j].prompt_en = prompt,
                         !.manifest.records[j].status = PENDING,
                         !.manifest.records[j].retry_cnt = @ + 1]
                w2 == SetCurrentPrompt(w1, w1.manifest.records[j].prompt_en)
                w3 == [w2 EXCEPT !.gui.generated_prompt_edit = prompt,
                                 !.gui.review_enabled = TRUE]
            IN restore_current_selection(w3, rel_path)
       ELSE [w EXCEPT !.manifest.records[j].temp_new_prompt = NoAttr]

\* on_image_regenerated(img_path, prompt, success) for the image of record
\* k: the record is looked up by the path relative to the manifest folder
on_image_regenerated(w, k, prompt, success) ==
    LET rel_path == PathStr(w.manifest.records[k].filepath)
        j == FirstWith(w.manifest.records, rel_path)
    IN IF j = 0 THEN w
       ELSE IF success
       THEN LET w1 == [w EXCEPT
                         !.manifest.records[j].temp_new_prompt = Attr(prompt),
                         !.manifest.records[j].retry_cnt = @ + 1]
                w2 == SetCurrentPrompt(w1, w1.manifest.records[j].prompt_en)
                w3 == [w2 EXCEPT !.gui.generated_prompt_edit = prompt,
                                 !.gui.review_enabled = TRUE]
            IN restore_current_selection(w3, rel_path)
       ELSE [w EXCEPT !.manifest.records[j].temp_new_prompt = NoAttr]

\* on_batch_regen_image_done(img_path, prompt, success) for the image of
\* record k
on_batch_regen_image_done(w, k, prompt, success) ==
    LET rel_path == PathStr(w.manifest.records[k].filepath)
        j == FirstWith(w.manifest.records, rel_path)
    IN IF j # 0 /\ success
       THEN [w EXCEPT !.manifest.records[j].temp_new_prompt = Attr(prompt),
                      !.manifest.records[j].retry_cnt = @ + 1]
       ELSE w

\* approve_current_image as it would be without its save_to_csv
approve_current_image_unsaved(w) ==
    LET k == w.gui.current_record
        current_prompt_text == strip(w.gui.current_prompt_edit)
        new_prompt_text == strip(w.gui.generated_prompt_edit)
        final_prompt == IF new_prompt_text # <<>> THEN new_prompt_text
                        ELSE current_prompt_text
    IN IF k = 0 THEN w
       ELSE IF current_prompt_text = <<>> /\ new_prompt_text = <<>> THEN w
       ELSE LET w1 == [w EXCEPT !.manifest =
                             [w.manifest EXCEPT
                                       !.records[k].prompt_en = final_prompt,
                                       !.records[k].status = APPROVED,
                                       !.records[k].temp_new_prompt = NoAttr]]
                w2 == restore_current_selection(
                          w1, w1.manifest.records[k].filepath)
                w3 == SetCurrentPrompt(w2, w2.manifest.records[k].prompt_en)
            IN [w3 EXCEPT !.gui.generated_prompt_edit = <<>>,
                          !.gui.review_enabled = FALSE]

\* approve_current_image
approve_current_image(w) ==
    LET k == w.gui.current_record
        current_prompt_text == strip(w.gui.current_prompt_edit)
        new_prompt_text == strip(w.gui.generated_prompt_edit)
        final_prompt == IF new_prompt_text # <<>> THEN new_prompt_text
                        ELSE current_prompt_text
    IN IF k = 0 THEN w
       ELSE IF current_prompt_text = <<>> /\ new_prompt_text = <<>> THEN w
       ELSE LET w1 == [w EXCEPT !.manifest =
                         save_to_csv(
                             [w.manifest EXCEPT
                                       !.records[k].prompt_en = final_prompt,
                                       !.records[k].status = APPROVED,
                                       !.records[k].temp_new_prompt = NoAttr])]
                w2 == restore_current_selection(
                          w1, w1.manifest.records[k].filepath)
                w3 == SetCurrentPrompt(w2, w2.manifest.records[k].prompt_en)
            IN [w3 EXCEPT !.gui.generated_prompt_edit = <<>>,
                          !.gui.review_enabled = FALSE]

\* reject_current_image as it would be if the reject kept the staged
\* candidate as the prompt of the record
reject_current_image_installing(w) ==
    LET k == w.gui.current_record
        temp == w.manifest.records[k].temp_new_prompt
        w1 == IF temp # NoAttr /\ temp[1] # <<>>
              THEN [w EXCEPT !.manifest.records[k].prompt_en = temp[1]]
              ELSE w
        w2 == [w1 EXCEPT !.manifest.records[k].temp_new_prompt = NoAttr]
        w3 == SetCurrentPrompt(w2, w2.manifest.records[k].prompt_en)
    IN IF k = 0 THEN w
       ELSE [w3 EXCEPT !.gui.generated_prompt_edit = <<>>,
                       !.gui.review_enabled = FALSE]

\* reject_current_image
reject_current_image(w) ==
    LET k == w.gui.current_record
        current_prompt_text == strip(w.gui.current_prompt_edit)
        w1 == IF /\ current_prompt_text # <<>>
                 /\ current_prompt_text # w.manifest.records[k].prompt_en
              THEN restore_current_selection(
                       [w EXCEPT !.manifest =
                           save_to_csv(
                               [w.manifest EXCEPT
                                  !.records[k].prompt_en = current_prompt_text,
                                  !.records[k].status = APPROVED])],
                       w.manifest.records[k].filepath)
              ELSE w
        w2 == [w1 EXCEPT !.manifest.records[k].temp_new_prompt = NoAttr]
        w3 == SetCurrentPrompt(w2, w2.manifest.records[k].prompt_en)
    IN IF k = 0 THEN w
       ELSE [w3 EXCEPT !.gui.generated_prompt_edit = <<>>,
                       !.gui.review_enabled = FALSE]

\* save_current_prompt
save_current_prompt(w) ==
    LET k == w.gui.current_record
        current_prompt_text == strip(w.gui.current_prompt_edit)
    IN IF k = 0 THEN w
       ELSE restore_current_selection(
                [w EXCEPT !.manifest.records[k].prompt_en = current_prompt_text,
                          !.manifest.records[k].status =
                              IF current_prompt_text # <<>> THEN APPROVED ELSE @],
                w.manifest.records[k].filepath)

---------------------------------------------------------------------------
(* The window as the user and its regeneration threads drive it *)

\* relative paths of the records under review: one as the import writes
\* it and one that names the same file another way
ReviewPaths == {<<"x">>, <<DOT, SLASH, "x">>}
\* prompt texts of add_or_update_record under review
ReviewPrompts == {<<>>, <<"a">>}
\* what a regeneration brings: the stripped text of the reply, which may be
\* empty, or an error message
RegenPrompts == {<<"b">>}
\* what the user types into an editor
EditChoices == {<<>>, <<SPACE, "a">>}

Window == [manifest |-> manifest, gui |-> gui]

\* the record a regeneration of the image of record k counts for has not
\* reached MaxRetryCnt
CanCount(records, k) ==
    LET j == FirstWith(records, PathStr(records[k].filepath))
    IN IF j = 0 THEN TRUE ELSE records[j].retry_cnt < MaxRetryCnt

\* the step of a handler that takes the window to w
Shows(w) ==
    /\ manifest' = w.manifest
    /\ gui' = w.gui
    /\ UNCHANGED NotWindow

\* the user clicks an item of the image list
GuiSelect ==
    \E k \in 1..Len(manifest.records) :
        Shows(on_image_selected(Window, k))

\* the user replaces the text of the current-prompt editor
GuiTypeCurrent ==
    \E text \in EditChoices : Shows(SetCurrentPrompt(Window, text))

\* the user replaces the text of the generated-prompt editor
GuiTypeGenerated ==
    \E text \in EditChoices :
        Shows([Window EXCEPT !.gui.generated_prompt_edit = text])

\* the approve button, when it is enabled
GuiApprove ==
    /\ gui.review_enabled
    /\ Shows(approve_current_image(Window))

\* the reject button, when it is enabled
GuiReject ==
    /\ gui.review_enabled
    /\ Shows(reject_current_image(Window))

GuiSaveCurrent == Shows(save_current_prompt(Window))

\* regenerate_current_image, confirmed: a SingleImageProcessingThread
\* starts for the image of the current record
GuiRegenerate ==
    /\ gui.current_record # 0
    /\ gui.regen_kind = "none"
    /\ Shows([Window EXCEPT !.gui.regen_kind = "single",
                            !.gui.regen_todo = <<gui.current_record>>])

\* the thread emits finished(img_path, prompt, success)
GuiRegenerated ==
    \E prompt \in RegenPrompts, success \in BOOLEAN :
        /\ gui.regen_kind = "single"
        /\ success => CanCount(manifest.records, Head(gui.regen_todo))
        /\ Shows([on_image_regenerated(Window, Head(gui.regen_todo),
                                       prompt, success)
                    EXCEPT !.gui.regen_kind = "none", !.gui.regen_todo = <<>>])

\* the thread emits error(message): on_regeneration_error touches no record
GuiRegenerationError ==
    /\ gui.regen_kind = "single"
    /\ Shows([Window EXCEPT !.gui.regen_kind = "none", !.gui.regen_todo = <<>>])


\* start_batch_regenerate, confirmed, for the records whose box is checked
GuiStartBatchRegenerate ==
    \E selected \in SUBSET (1..Len(manifest.records)) :
        /\ selected # {}
        /\ gui.regen_kind = "none"
        /\ Shows([Window EXCEPT
                    !.gui.regen_kind = "batch",
                    !.gui.regen_todo =
                        SelectSeq([k \in 1..Len(manifest.records) |-> k],
                                  LAMBDA k : k \in selected)])

\* the BatchRegenerateThread emits image_regenerated for its next image
GuiBatchRegenImageDone ==
    \E prompt \in RegenPrompts, success \in BOOLEAN :
        /\ gui.regen_kind = "batch"
        /\ gui.regen_todo # <<>>
        /\ success => CanCount(manifest.records, Head(gui.regen_todo))
        /\ Shows([on_batch_regen_image_done(Window, Head(gui.regen_todo),
                                            prompt, success)
                    EXCEPT !.gui.regen_todo = Tail(@)])

\* the thread emits batch_finished: on_batch_regen_finished rebuilds the
\* list, which may leave the window without a current item
GuiBatchRegenFinished ==
    \E keeps \in BOOLEAN :
        /\ gui.regen_kind = "batch"
        /\ gui.regen_todo = <<>>
        /\ Shows([Window EXCEPT
                    !.gui.regen_kind = "none",
                    !.gui.current_record = IF keeps THEN @ ELSE 0])

---------------------------------------------------------------------------
(* The batch runs: BatchProcessingThread and BatchRegenerateThread of the
   window, and run_processing of the command line *)

WorkerKinds == {"process", "regenerate", "cli"}

\* texts of the result tuples: the stripped text of a reply, which may be
\* empty, or an error message
ResultTexts == {<<>>, <<"b">>}

\* the frame of a run: items are the records it was started for, i the
\* position of the loop, results the tuples it got so far, begun the number
\* of dispatches it began and late how many of them began with should_stop
\* already set
IdleWorker ==
    [kind |-> "none", pc |-> "idle", items |-> <<>>, i |-> 0,
     should_stop |-> FALSE, results |-> <<>>, begun |-> 0, late |-> 0]

\* get_pending_records, as positions in the record list
get_pending_records(records) ==
    SelectSeq([k \in 1..Len(records) |-> k],
              LAMBDA k : records[k].status = PENDING)

\* a result tuple (image_path, text, success) for the image of record k
ResultFor(k, text, success) == [k |-> k, text |-> text, success |-> success]

\* run() of BatchProcessingThread up to its loop: the pending records are
\* listed once; without any, processing_finished(0, 0) is emitted at once
WorkerStartProcessing ==
    /\ worker.kind = "process"
    /\ worker.pc = "start"
    /\ LET pending_records == get_pending_records(manifest.records)
       IN worker' = [worker EXCEPT
                       !.items = pending_records,
                       !.i = 1,
                       !.pc = IF pending_records = <<>> THEN "done"
                              ELSE "check"]
    /\ UNCHANGED <<manifest, gui>>
    /\ UNCHANGED NotReview

\* run() of BatchRegenerateThread up to its loop: image_paths are the
\* images of the records whose box was checked
WorkerStartRegenerate ==
    \E selected \in SUBSET (1..Len(manifest.records)) :
        /\ worker.kind = "regenerate"
        /\ worker.pc = "start"
        /\ selected # {}
        /\ worker' = [worker EXCEPT
                        !.items = SelectSeq([k \in 1..Len(manifest.records) |-> k],
                                            LAMBDA k : k \in selected),
                        !.i = 1,
                        !.pc = "check"]
        /\ UNCHANGED <<manifest, gui>>
        /\ UNCHANGED NotReview

\* WorkerCheck without the test of the flag
WorkerCheckNoFlag(wk) ==
    [wk EXCEPT !.pc = IF wk.i > Len(wk.items) THEN "after" ELSE "iter"]

\* the top of the for loop of either thread: the loop ends when the list is
\* through, 'if self.should_stop: break' leaves it
WorkerCheckFlag(wk) ==
    [wk EXCEPT !.pc = IF wk.i > Len(wk.items) \/ wk.should_stop
                      THEN "after" ELSE "iter"]

WorkerCheck ==
    /\ worker.kind \in {"process", "regenerate"}
    /\ worker.pc = "check"
    /\ worker' = WorkerCheckFlag(worker)
    /\ UNCHANGED <<manifest, gui>>
    /\ UNCHANGED NotReview

\* the iteration up to its dispatch: progress_updated is emitted;
\* BatchProcessingThread reports an image whose file does not exist as
\* failed and goes on to the next, otherwise _process_single_image begins
WorkerBegin ==
    \E exists \in BOOLEAN :
        /\ worker.kind \in {"process", "regenerate"}
        /\ worker.pc = "iter"
        /\ worker.kind = "regenerate" => exists
        /\ worker' =
             IF exists
             THEN [worker EXCEPT
                     !.pc = "inflight",
                     !.begun = @ + 1,
                     !.late = IF worker.should_stop THEN @ + 1 ELSE @]
             ELSE [worker EXCEPT !.pc = "check", !.i = @ + 1]
        /\ UNCHANGED <<manifest, gui>>
        /\ UNCHANGED NotReview

\* _process_single_image returns in BatchProcessingThread: a success puts
\* the text into the record and makes it pending
WorkerProcessed ==
    \E text \in ResultTexts, success \in BOOLEAN :
        /\ worker.kind = "process"
        /\ worker.pc = "inflight"
        /\ LET k == worker.items[worker.i]
           IN /\ manifest' =
                   IF success
                   THEN [manifest EXCEPT !.records[k].prompt_en = text,
                                         !.records[k].status = PENDING]
                   ELSE manifest
              /\ worker' = [worker EXCEPT
                              !.pc = "check", !.i = @ + 1,
                              !.results = Append(@, ResultFor(k, text, success))]
        /\ UNCHANGED gui
        /\ UNCHANGED NotReview

\* _process_single_image returns in BatchRegenerateThread:
\* image_regenerated is emitted and on_batch_regen_image_done runs
WorkerRegenerated ==
    \E text \in ResultTexts, success \in BOOLEAN :
        /\ worker.kind = "regenerate"
        /\ worker.pc = "inflight"
        /\ success => CanCount(manifest.records, worker.items[worker.i])
        /\ LET k == worker.items[worker.i]
               w == on_batch_regen_image_done(Window, k, text, success)
           IN /\ manifest' = w.manifest
              /\ gui' = w.gui
              /\ worker' = [worker EXCEPT
                              !.pc = "check", !.i = @ + 1,
                              !.results = Append(@, ResultFor(k, text, success))]
        /\ UNCHANGED NotReview

\* after the loop: BatchProcessingThread saves the manifest and emits
\* processing_finished, BatchRegenerateThread emits batch_finished
WorkerFinish ==
    /\ worker.kind \in {"process", "regenerate"}
    /\ worker.pc = "after"
    /\ manifest' = IF worker.kind = "process" THEN save_to_csv(manifest)
                   ELSE manifest
    /\ worker' = [worker EXCEPT !.pc = "done"]
    /\ UNCHANGED gui
    /\ UNCHANGED NotReview

\* stop_processing, called from the window while the thread runs
StopProcessing ==
    /\ worker.kind \in {"process", "regenerate"}
    /\ worker.pc \in {"start", "check", "iter", "inflight", "after"}
    /\ ~worker.should_stop
    /\ worker' = [worker EXCEPT !.should_stop = TRUE]
    /\ UNCHANGED <<manifest, gui>>
    /\ UNCHANGED NotReview

\* run_processing on a manifest file, up to the call of the pipeline: the
\* manifest is loaded and the pending records are listed; without any the
\* run is over
CliLoad ==
    /\ worker.kind = "cli"
    /\ worker.pc = "start"
    /\ manifest' = load_from_csv(manifest)
    /\ LET pending_records == get_pending_records(manifest'.records)
       IN worker' = [worker EXCEPT
                       !.items = pending_records,
                       !.pc = IF pending_records = <<>> THEN "done"
                              ELSE "pipeline"]
    /\ UNCHANGED gui
    /\ UNCHANGED NotReview

\* the results of process_images_pipeline for the listed records: a tuple
\* for every image but the size-skipped ones, in the order of the list
RECURSIVE PipelineResults(_)
PipelineResults(items) ==
    IF items = <<>> THEN {<<>>}
    ELSE LET rest == PipelineResults(Tail(items))
         IN rest \cup {<<ResultFor(Head(items), text, success)>> \o rs :
                          text \in ResultTexts, success \in BOOLEAN, rs \in rest}

\* 'for image_path, prompt_result, success in results': a success goes to
\* add_or_update_record under the path text of the image, as pending
RECURSIVE Reconcile(_, _)
Reconcile(m, results) ==
    IF results = <<>> THEN m
    ELSE Reconcile(
             IF Head(results).success
             THEN add_or_update_record(
                      m, PathStr(m.records[Head(results).k].filepath),
                      Head(results).text, <<>>, PENDING)
             ELSE m,
             Tail(results))

\* run_processing from the return of the pipeline to its end: the results
\* are reconciled and the manifest is saved
CliReconcile ==
    \E results \in PipelineResults(worker.items) :
        /\ worker.kind = "cli"
        /\ worker.pc = "pipeline"
        /\ manifest' = save_to_csv(Reconcile(manifest, results))
        /\ worker' = [worker EXCEPT !.pc = "done", !.results = results]
        /\ UNCHANGED gui
        /\ UNCHANGED NotReview

---------------------------------------------------------------------------
(* The specifications *)

\* the settings of config.py: CONCURRENCY 1, RETRY_MAX 3, RETRY_DELAY 1.0
DefaultSettings ==
    [max_batch_size_bytes |-> DefaultMaxBatchSizeBytes, concurrency |-> 1,
     retry_max |-> 3, retry_delay |-> 1000, valid |-> TRUE]

\* a path that is not in the input list plays no part: its stat is fixed
Listed(paths, stat) ==
    \A f \in Files : f \notin Range(paths) => stat[f] = StatOk(1000000)

\* the variables the pipeline components do not use, at rest
NoReview == manifest = IdleManifest /\ gui = IdleGui /\ worker = IdleWorker

\* dynamic_chunk_images on every list, file system and byte ceiling
InitChunk ==
    /\ image_paths \in SeqUpTo(Files, MaxFiles)
    /\ Canonical(image_paths)
    /\ fs \in [Files -> StatResults]
    /\ Listed(image_paths, fs)
    /\ settings \in {[DefaultSettings EXCEPT !.max_batch_size_bytes = m] :
                        m \in MaxBatchSizeChoices}
    /\ chunker = [IdleChunker EXCEPT !.pc = "call"]
    /\ retry = IdleRetry
    /\ limiter = IdleLimiter
    /\ rate = IdleRate
    /\ pipeline = IdlePipeline
    /\ NoReview

NextChunk == ChunkerEnter \/ ChunkerEmpty \/ ChunkerIterate \/ ChunkerLast

SpecChunk == InitChunk /\ [][NextChunk]_vars

\* retry_async on every max_retries and base_delay
InitRetry ==
    /\ image_paths = <<>>
    /\ fs = [f \in Files |-> StatOk(1000000)]
    /\ settings = DefaultSettings
    /\ chunker = IdleChunker
    /\ retry \in {[IdleRetry EXCEPT !.pc = "call", !.max_retries = n,
                                    !.base_delay = d, !.max_delay = m] :
                     n \in (-1)..MaxRetries, d \in BaseDelayChoices,
                     m \in MaxDelayChoices}
    /\ limiter = IdleLimiter
    /\ rate = IdleRate
    /\ pipeline = IdlePipeline
    /\ NoReview

NextRetry == RetryCall \/ RetryFuncReturns \/ RetryFuncRaises \/ RetryWake

SpecRetry == InitRetry /\ [][NextRetry]_vars

\* run_tasks_with_limit on every list of tasks
InitLimiter ==
    /\ image_paths = <<>>
    /\ fs = [f \in Files |-> StatOk(1000000)]
    /\ settings = DefaultSettings
    /\ chunker = IdleChunker
    /\ retry = IdleRetry
    /\ limiter \in {[IdleLimiter EXCEPT !.pc = "call", !.max_concurrency = c,
                                        !.tasks = t, !.callback = cb] :
                       c \in 1..MaxConcurrency,
                       t \in SeqUpTo(TaskKinds, MaxTasks),
                       cb \in CallbackKinds}
    /\ pipeline = IdlePipeline
    /\ rate = IdleRate
    /\ NoReview

NextLimiter ==
    \/ LimiterCall
    \/ \E i \in DOMAIN limiter.tpc : LimiterTaskBegin(i)
    \/ \E i \in DOMAIN limiter.tpc : LimiterTaskResume(i)
    \/ \E i \in DOMAIN limiter.tpc : LimiterTaskFinish(i)
    \/ LimiterGathered

SpecLimiter == InitLimiter /\ [][NextLimiter]_vars

\* process_images_pipeline: stat results and settings of the pipeline runs
PipelineStatResults == {StatOSError, StatOk(5000000), StatOk(12000000)}
PipelineRetryChoices == {0, 1}

\* the input lists of the pipeline runs: pairwise distinct paths, or such a
\* list whose last path repeats the first
PipelineInput(s) ==
    \A k \in 1..Len(s) : s[k] = k \/ (k = Len(s) /\ s[k] = 1)

InitPipeline ==
    /\ image_paths \in SeqUpTo(Files, MaxFiles)
    /\ PipelineInput(image_paths)
    /\ fs \in [Files -> PipelineStatResults]
    /\ \A f \in Files : f \notin Range(image_paths) => fs[f] = StatOk(5000000)
    /\ settings \in [max_batch_size_bytes : MaxBatchSizeChoices,
                     concurrency : 1..MaxConcurrency,
                     retry_max : PipelineRetryChoices,
                     retry_delay : {1000},
                     valid : BOOLEAN]
    /\ chunker = IdleChunker
    /\ retry = IdleRetry
    /\ limiter = IdleLimiter
    /\ rate = IdleRate
    /\ pipeline \in {[IdlePipeline EXCEPT !.pc = "call", !.api_importable = b] :
                        b \in BOOLEAN}
    /\ NoReview

NextPipeline ==
    \/ PipelineCall
    \/ \E i \in DOMAIN pipeline.tpc : PipelineTaskBegin(i)
    \/ \E i \in DOMAIN pipeline.tpc : PipelineTaskResume(i)
    \/ \E i \in DOMAIN pipeline.tpc : PipelineRequestReturns(i)
    \/ \E i \in DOMAIN pipeline.tpc : PipelineRequestRaises(i)
    \/ \E i \in DOMAIN pipeline.tpc : PipelineRetryWake(i)
    \/ PipelineGathered

SpecPipeline == InitPipeline /\ [][NextPipeline]_vars

\* the input lists of the fair runs: up to three distinct files
FairInputs == {<<>>, <<1>>, <<1, 2>>, <<1, 2, 3>>}

\* runs over files of 5 MB, the first of which may be unreadable, also with
\* settings.concurrency = 0 (CONCURRENCY=0 in the environment), where the
\* semaphore has no permit
InitPipelineFair ==
    /\ image_paths \in FairInputs
    /\ fs \in [Files -> {StatOSError, StatOk(5000000)}]
    /\ \A f \in Files : (f # 1 \/ f \notin Range(image_paths))
                            => fs[f] = StatOk(5000000)
    /\ settings \in [max_batch_size_bytes : MaxBatchSizeChoices,
                     concurrency : 0..MaxConcurrency,
                     retry_max : PipelineRetryChoices,
                     retry_delay : {1000},
                     valid : BOOLEAN]
    /\ chunker = IdleChunker
    /\ retry = IdleRetry
    /\ limiter = IdleLimiter
    /\ rate = IdleRate
    /\ pipeline \in {[IdlePipeline EXCEPT !.pc = "call", !.api_importable = b] :
                        b \in BOOLEAN}
    /\ NoReview

\* the steps the event loop takes by itself: it runs every coroutine that is
\* ready, and a backoff sleep ends when its time is over
PipelineSchedulerStep ==
    \/ PipelineCall
    \/ \E i \in DOMAIN pipeline.tpc : PipelineTaskBegin(i)
    \/ \E i \in DOMAIN pipeline.tpc : PipelineTaskResume(i)
    \/ \E i \in DOMAIN pipeline.tpc : PipelineRetryWake(i)
    \/ PipelineGathered

\* the steps of the network: a request that was sent returns or fails (the
\* session of make_request has a total timeout of 60 s)
PipelineApiStep ==
    \/ \E i \in DOMAIN pipeline.tpc : PipelineRequestReturns(i)
    \/ \E i \in DOMAIN pipeline.tpc : PipelineRequestRaises(i)

\* process_images_pipeline under a fair event loop and an API whose every
\* attempt ends
SpecPipelineFair ==
    /\ InitPipelineFair
    /\ [][NextPipeline]_vars
    /\ WF_vars(PipelineSchedulerStep)
    /\ WF_vars(PipelineApiStep)

\* a ManifestManager on a path without a file, driven by add_or_update_record,
\* import_from_directory, update_record_status, increment_retry_count,
\* save_to_csv and load_from_csv
InitManifest ==
    /\ image_paths = <<>>
    /\ fs = [f \in Files |-> StatOk(1000000)]
    /\ settings = DefaultSettings
    /\ chunker = IdleChunker
    /\ retry = IdleRetry
    /\ limiter = IdleLimiter
    /\ rate = IdleRate
    /\ pipeline = IdlePipeline
    /\ manifest = ManifestManager
    /\ gui = IdleGui
    /\ worker = IdleWorker

NextManifest ==
    \/ ManifestAddOrUpdate
    \/ ManifestImport
    \/ ManifestUpdateStatus
    \/ ManifestIncrementRetry
    \/ ManifestSave
    \/ ManifestLoad

SpecManifest == InitManifest /\ [][NextManifest]_vars

\* manifest files as another program or a hand may have written them: the
\* rows of a file are drawn from rows with a status and a retry_cnt that
\* load, rows with one that does not, and a row that ends before retry_cnt
LoadStatusTexts == {<<"approved">>, <<"Pending">>, <<>>}
LoadRetryTexts == {<<"0">>, <<SPACE, "1">>, <<"1", UNDERSCORE, "0">>, <<"x">>}
LoadRows ==
    {<<<<"x">>, <<>>, <<>>, st, rt>> :
        st \in LoadStatusTexts, rt \in LoadRetryTexts}
    \cup {<<<<"y", LF>>, <<"a">>, <<>>, <<"rejected">>, <<"0">>>>,
          <<<<"x">>, <<>>, <<>>, <<"pending">>>>}

RowSeqs(n) == UNION {[1..k -> LoadRows] : k \in 0..n}

RECURSIVE WriteLines(_)
WriteLines(rows) ==
    IF rows = <<>> THEN <<>>
    ELSE writerow(Head(rows)) \o WriteLines(Tail(rows))

\* a file with the header of save_to_csv, and one without the filepath and
\* the status column
LoadFiles ==
    {writerow(fieldnames) \o WriteLines(rows) : rows \in RowSeqs(MaxRecords)}
    \cup {writerow(<<fieldnames[2], fieldnames[5]>>)
              \o writerow(<<<<"a">>, rt>>) : rt \in LoadRetryTexts}

\* a ManifestManager on the path of such a file
InitLoad ==
    /\ image_paths = <<>>
    /\ fs = [f \in Files |-> StatOk(1000000)]
    /\ settings = DefaultSettings
    /\ chunker = IdleChunker
    /\ retry = IdleRetry
    /\ limiter = IdleLimiter
    /\ rate = IdleRate
    /\ pipeline = IdlePipeline
    /\ \E text \in LoadFiles :
          manifest = [ManifestManager EXCEPT !.file = FileWith(text)]
    /\ gui = IdleGui
    /\ worker = IdleWorker

NextLoad ==
    \/ ManifestLoad
    \/ ManifestUpdateStatus
    \/ ManifestSave

SpecLoad == InitLoad /\ [][NextLoad]_vars

\* an AsyncRateLimiter shared by the coroutines of Callers
InitRate ==
    /\ image_paths = <<>>
    /\ fs = [f \in Files |-> StatOk(1000000)]
    /\ settings = DefaultSettings
    /\ chunker = IdleChunker
    /\ retry = IdleRetry
    /\ limiter = IdleLimiter
    /\ pipeline = IdlePipeline
    /\ NoReview
    /\ rate \in {NewRate(calls, period) :
                    calls \in RateCalls, period \in RatePeriods}

NextRate ==
    \/ \E c \in Callers : RateAcquire(c)
    \/ \E c \in Callers : RateWake(c)
    \/ RateTick

SpecRate == InitRate /\ [][NextRate]_vars

\* the event loop ends every sleep whose time is over
SpecRateFair ==
    /\ InitRate
    /\ [][NextRate]_vars
    /\ \A c \in Callers : WF_vars(RateWake(c))

\* the pipeline components at rest
NoPipeline ==
    /\ image_paths = <<>>
    /\ fs = [f \in Files |-> StatOk(1000000)]
    /\ settings = DefaultSettings
    /\ chunker = IdleChunker
    /\ retry = IdleRetry
    /\ limiter = IdleLimiter
    /\ rate = IdleRate
    /\ pipeline = IdlePipeline

\* the manifests under review and of the batch runs: up to MaxRecords
\* records with distinct filepaths, as a manifest file holds them
LoadedRecords ==
    {ImageRecord(f, p, <<>>, s, 0) :
        f \in ReviewPaths, p \in ReviewPrompts, s \in ProcessStatus}
LoadedManifests ==
    {rs \in SeqUpTo(LoadedRecords, MaxRecords) :
        \A j, k \in 1..Len(rs) : rs[j].filepath = rs[k].filepath => j = k}

\* a window that has loaded a manifest: the user selects, edits,
\* regenerates, approves and rejects
InitReview ==
    /\ NoPipeline
    /\ \E rs \in LoadedManifests :
          manifest = [records |-> rs, file |-> FileWith(CsvText(rs))]
    /\ gui = IdleGui
    /\ worker = IdleWorker

NextReview ==
    \/ GuiSelect
    \/ GuiTypeCurrent
    \/ GuiTypeGenerated
    \/ GuiApprove
    \/ GuiReject
    \/ GuiSaveCurrent
    \/ GuiRegenerate
    \/ GuiRegenerated
    \/ GuiRegenerationError
    \/ GuiStartBatchRegenerate
    \/ GuiBatchRegenImageDone
    \/ GuiBatchRegenFinished

SpecReview == InitReview /\ [][NextReview]_vars

\* the life of one record: the window has loaded a manifest of one record,
\* and next to the user's handlers the manager operations run on it
ExistingPaths ==
    {manifest.records[k].filepath : k \in 1..Len(manifest.records)}
LifeAddOrUpdate == AddOrUpdate(ExistingPaths, ReviewPrompts)
LifeUpdateStatus == UpdateStatus(ExistingPaths)
LifeIncrementRetry == IncrementRetry(ExistingPaths)

InitLife ==
    /\ InitReview
    /\ Len(manifest.records) = 1

NextLife ==
    \/ LifeAddOrUpdate
    \/ LifeUpdateStatus
    \/ LifeIncrementRetry
    \/ NextReview

SpecLife == InitLife /\ [][NextLife]_vars

\* a batch run of either thread on the manifest the window has loaded, or
\* run_processing on the manifest file
InitBatch ==
    /\ NoPipeline
    /\ \E rs \in LoadedManifests, kind \in WorkerKinds :
          /\ manifest = [records |-> IF kind = "cli" THEN <<>> ELSE rs,
                         file |-> FileWith(CsvText(rs))]
          /\ worker = [IdleWorker EXCEPT !.kind = kind, !.pc = "start"]
    /\ gui = IdleGui

NextBatch ==
    \/ WorkerStartProcessing
    \/ WorkerStartRegenerate
    \/ WorkerCheck
    \/ WorkerBegin
    \/ WorkerProcessed
    \/ WorkerRegenerated
    \/ WorkerFinish
    \/ StopProcessing
    \/ CliLoad
    \/ CliReconcile

SpecBatch == InitBatch /\ [][NextBatch]_vars

---------------------------------------------------------------------------
(* Properties of dynamic_chunk_images (SpecChunk) *)

RECURSIVE SumEstimates(_)
SumEstimates(chunk) ==
    IF chunk = <<>> THEN 0
    ELSE estimate_base64_size(Head(chunk)) + SumEstimates(Tail(chunk))

\* the size-skip rule as the specification words it
SizeSkipped(f) ==
    estimate_base64_size(f) + 2048 > settings.max_batch_size_bytes
NotSizeSkipped(f) == ~SizeSkipped(f)

\* C1: every chunk yielded so far has (sum of the estimated sizes of its
\* files) + base_overhead (2048) <= max_batch_size_bytes
C1_ChunkWithinCeiling ==
    \A k \in 1..Len(chunker.yielded) :
        SumEstimates(chunker.yielded[k]) + 2048 <= settings.max_batch_size_bytes

\* a finished run that closed a batch of two images because the third did
\* not fit
C1_Witness ==
    /\ chunker.pc = "done"
    /\ Len(chunker.yielded) = 2
    /\ Len(chunker.yielded[1]) = 2
    /\ SumEstimates(chunker.yielded[1]) > 0
    /\ SumEstimates(chunker.yielded[1])
         + estimate_base64_size(chunker.yielded[2][1]) + 2048
         > settings.max_batch_size_bytes

\* C2: for a non-empty input, the chunks in yield order concatenate to the
\* input list without its size-skipped files: nothing duplicated, reordered
\* or lost
C2_ConcatIsInputMinusSkipped ==
    (chunker.pc = "done" /\ image_paths # <<>>)
        => Concat(chunker.yielded) = SelectSeq(image_paths, NotSizeSkipped)

\* a finished run over three paths, the middle one size-skipped, the other
\* two in two chunks
C2_Witness ==
    /\ chunker.pc = "done"
    /\ Len(image_paths) = 3
    /\ SizeSkipped(image_paths[2])
    /\ chunker.yielded = <<<<image_paths[1]>>, <<image_paths[3]>>>>

\* the files of the batches yielded so far and of the running batch
Chunked == Range(Concat(chunker.yielded)) \cup Range(chunker.current_batch)

\* the loop is about to look at a size-skipped file
AtSizeSkipped ==
    /\ chunker.pc = "loop"
    /\ chunker.i <= Len(image_paths)
    /\ SizeSkipped(image_paths[chunker.i])

\* C15: a file with estimated size + base_overhead > max_batch_size_bytes is
\* in no batch, yielded or running; the iteration that skips it leaves the
\* running batch, its size and the yielded batches as they were and moves on
\* to the next file; and at the end every file that is not size-skipped,
\* also one after a skipped file, is in a yielded chunk
C15_OversizeSkippedAlone ==
    /\ [](\A f \in Range(image_paths) : SizeSkipped(f) => f \notin Chunked)
    /\ [][AtSizeSkipped =>
            /\ chunker'.pc = "loop"
            /\ chunker'.i = chunker.i + 1
            /\ chunker'.current_batch = chunker.current_batch
            /\ chunker'.current_size = chunker.current_size
            /\ chunker'.yielded = chunker.yielded]_vars
    /\ [](chunker.pc = "done" =>
            \A k \in 1..Len(image_paths) :
                NotSizeSkipped(image_paths[k])
                    => image_paths[k] \in Range(Concat(chunker.yielded)))

\* three files, the middle one size-skipped: the first and the third are
\* yielded together in one chunk
C15_Witness ==
    /\ chunker.pc = "done"
    /\ Len(image_paths) = 3
    /\ SizeSkipped(image_paths[2])
    /\ image_paths[1] # image_paths[3]
    /\ chunker.yielded = <<<<image_paths[1], image_paths[3]>>>>

\* C16: a file whose size estimation fails with an I/O error (stat raises
\* OSError) is in no yielded chunk
C16_IOErrorFileSkipped ==
    chunker.pc = "done" =>
        \A f \in Range(image_paths) :
            fs[f].error => f \notin Range(Concat(chunker.yielded))

\* the chunks closed so far followed by the running batch, if it has a file
ChunksInOrder ==
    IF chunker.pc = "loop" /\ chunker.current_batch # <<>>
    THEN Append(chunker.yielded, chunker.current_batch)
    ELSE chunker.yielded

\* C31: no chunk that was yielded is empty, and a call that is through
\* with an input in which every file was size-skipped (the empty input
\* among them) has yielded no chunk at all
C31_NoEmptyChunk ==
    /\ \A k \in 1..Len(chunker.yielded) : chunker.yielded[k] # <<>>
    /\ (chunker.pc = "done" /\ \A f \in Range(image_paths) : SizeSkipped(f))
          => chunker.yielded = <<>>

\* a call that is through without a chunk, every one of its files skipped
C31_Witness ==
    /\ chunker.pc = "done"
    /\ Len(image_paths) >= 2
    /\ \A f \in Range(image_paths) : SizeSkipped(f)
    /\ chunker.yielded = <<>>

\* C30: a chunk is closed only when the next file that is not skipped would
\* not fit: for every two consecutive chunks, (sum of the sizes of the
\* earlier chunk) + (size of the first file of the later chunk)
\* + base_overhead > max_batch_size_bytes
C30_ClosedOnlyWhenFull ==
    \A k \in 1..(Len(ChunksInOrder) - 1) :
        SumEstimates(ChunksInOrder[k])
            + estimate_base64_size(ChunksInOrder[k + 1][1]) + base_overhead
            > settings.max_batch_size_bytes

\* a finished run that closed two chunks and yielded a third: three files
\* of which no two fit together
C30_Witness ==
    /\ chunker.pc = "done"
    /\ Len(chunker.yielded) = 3
    /\ \A k \in 1..3 : Len(chunker.yielded[k]) = 1
    /\ \A k \in 1..2 :
          estimate_base64_size(chunker.yielded[k][1])
              + estimate_base64_size(chunker.yielded[k + 1][1]) + base_overhead
              > settings.max_batch_size_bytes

---------------------------------------------------------------------------
(* Properties of retry_async (SpecRetry) *)

\* C3: with max_retries = N >= 0 the operation is invoked at most N + 1
\* times; a call in which every invocation failed ends only after exactly
\* N + 1 invocations, by raising RetryError, whichever exception classes the
\* operation raised; a call that is still running has failed every time so far
C3_AtMostNPlusOneCalls ==
    retry.max_retries >= 0 =>
        /\ retry.calls <= retry.max_retries + 1
        /\ retry.pc = "raised" =>
              /\ retry.calls = retry.max_retries + 1
              /\ retry.outcome.kind = "RetryError"
              /\ retry.last_exception \in ExceptionKinds
        /\ (retry.pc \in {"invoke", "sleep"} /\ retry.calls > 0) =>
              /\ retry.last_exception \in ExceptionKinds
              /\ retry.calls < retry.max_retries + 1

\* max_retries = 2, three failed invocations, the last a ValueError:
\* RetryError is raised
C3_Witness ==
    /\ retry.max_retries = 2
    /\ retry.pc = "raised"
    /\ retry.calls = 3
    /\ retry.last_exception = "ValueError"
    /\ retry.outcome.kind = "RetryError"

\* C12: if the operation fails on its first k - 1 invocations and succeeds
\* on invocation k <= max_retries + 1, retry_async returns the value of that
\* invocation after exactly k invocations, and invocation k stays the last
C12_ReturnsFirstSuccess ==
    retry.max_retries >= 0 =>
        \A k \in 1..Len(retry.invoked) :
            retry.invoked[k] \in ReturnValues =>
                /\ k = Len(retry.invoked)
                /\ k <= retry.max_retries + 1
                /\ retry.pc = "returned"
                /\ retry.outcome = Returned(retry.invoked[k])
                /\ retry.calls = k
                /\ retry.sleeps = k - 1

\* max_retries = 2: two failures, then the third invocation returns v2
C12_Witness ==
    /\ retry.max_retries = 2
    /\ retry.invoked = <<"ValueError", "TimeoutError", "v2">>
    /\ retry.pc = "returned"
    /\ retry.outcome.value = "v2"
    /\ retry.calls = 3

\* C13: while retry_async sleeps after failed attempt a, the delay before
\* jitter is min(base_delay * 2^a, max_delay), it is not below the delay of
\* the attempt before, and the time slept lies between half of it and all of
\* it, so never above max_delay
C13_DelayMonotoneAndCapped ==
    retry.pc = "sleep" =>
        /\ retry.delay = Min(retry.base_delay * Pow2(retry.attempt), retry.max_delay)
        /\ retry.prev_delay <= retry.delay
        /\ retry.attempt > 0 =>
              retry.prev_delay = Min(retry.base_delay * Pow2(retry.attempt - 1),
                                     retry.max_delay)
        /\ retry.delay <= 2 * retry.slept
        /\ retry.slept <= retry.delay
        /\ retry.slept <= retry.max_delay

\* base_delay 40 s: after attempt 0 the delay was 40 s, after attempt 1 it is
\* capped at 60 s, and with a jitter factor of 0.75 the sleep is 45 s
C13_Witness ==
    /\ retry.pc = "sleep"
    /\ retry.attempt = 1
    /\ retry.base_delay = 40000
    /\ retry.prev_delay = 40000
    /\ retry.delay = 60000
    /\ retry.slept = 45000

\* C14: when every one of the max_retries + 1 invocations has failed, the
\* RetryError raised wraps the exception of the last invocation
C14_WrapsLastFailure ==
    (retry.max_retries >= 0 /\ retry.pc = "raised") =>
        /\ Len(retry.invoked) = retry.max_retries + 1
        /\ retry.outcome = RetryError("exhausted", retry.invoked[Len(retry.invoked)])

\* three failures of three different classes: RetryError wraps the third
C14_Witness ==
    /\ retry.max_retries = 2
    /\ retry.pc = "raised"
    /\ retry.invoked = <<"ValueError", "ClientError", "TimeoutError">>
    /\ retry.outcome.cause = "TimeoutError"

\* C32: a call that is over and invoked the operation has slept once less
\* than it invoked (no sleep after the invocation that ended it, be it a
\* success or the last failure); while it runs every invocation so far was
\* followed by a sleep; a call that invokes nothing sleeps not at all
C32_SleepsBetweenInvocations ==
    /\ retry.calls = Len(retry.invoked)
    /\ retry.sleeps =
          IF retry.pc \in {"returned", "raised"} /\ retry.calls > 0
          THEN retry.calls - 1
          ELSE retry.calls

\* three failed invocations with two sleeps between them, then RetryError
C32_Witness ==
    /\ retry.pc = "raised"
    /\ retry.max_retries = 2
    /\ retry.calls = 3
    /\ retry.sleeps = 2
    /\ retry.outcome.kind = "RetryError"

---------------------------------------------------------------------------
(* Properties of ConcurrencyLimiter (SpecLimiter) *)

\* the tasks inside the async with block of run_single_task
InsideLimiter == {i \in DOMAIN limiter.tpc : limiter.tpc[i] = "running"}

\* C4: in every reachable state 0 <= active_tasks <= max_concurrency, and no
\* more than max_concurrency tasks are inside the limiter scope
C4_ActiveWithinLimit ==
    /\ 0 <= limiter.active_tasks
    /\ limiter.active_tasks <= limiter.max_concurrency
    /\ Cardinality(InsideLimiter) <= limiter.max_concurrency

\* three tasks, max_concurrency 2: two are inside, the third waits
C4_Witness ==
    /\ limiter.max_concurrency = 2
    /\ Len(limiter.tasks) = 3
    /\ limiter.active_tasks = 2
    /\ Cardinality(InsideLimiter) = 2
    /\ \E i \in DOMAIN limiter.tpc : limiter.tpc[i] = "waiting"

\* C5: once every submitted task has finished, by returning, by raising or
\* by an exception leaving run_single_task, active_tasks is 0 and all
\* max_concurrency permits are available again
C5_SlotsReleased ==
    (/\ limiter.pc \in {"gather", "done"}
     /\ \A i \in DOMAIN limiter.tpc : limiter.tpc[i] = "done")
        => /\ limiter.active_tasks = 0
           /\ limiter.semaphore.value = limiter.max_concurrency
           /\ limiter.semaphore.waiters = <<>>
           /\ limiter.semaphore.granted = {}

\* three tasks under max_concurrency 1 have all finished: one returned, one
\* raised, and a raising callback made an exception leave run_single_task
C5_Witness ==
    /\ limiter.pc = "done"
    /\ limiter.max_concurrency = 1
    /\ Len(limiter.tasks) = 3
    /\ \E i \in 1..3 : limiter.tasks[i].raises /\ limiter.tasks[i].suspends
    /\ \E i \in 1..3 : ~limiter.tasks[i].raises
    /\ \E i \in 1..3 : limiter.task_results[i].kind = "exception"
    /\ limiter.active_tasks = 0
    /\ limiter.semaphore.value = 1

\* C39: what run_tasks_with_limit returns has one entry per submitted task,
\* entry i being (result, None) when task i returned and (None, error) with
\* the error of task i when it raised, whatever the other tasks did and in
\* whatever order the tasks ended
C39_OneEntryPerTask ==
    limiter.pc = "done" =>
        /\ Len(limiter.indexed_results) = Len(limiter.tasks)
        /\ \A i \in 1..Len(limiter.tasks) :
              limiter.indexed_results[i] =
                 IF limiter.tasks[i].raises
                 THEN <<"None", "TaskError">>
                 ELSE <<"result", "None">>

---------------------------------------------------------------------------
(* Properties of process_image_batch and process_images_pipeline
   (SpecPipeline) *)

\* the batches whose dispatch is over
Dispatched == {i \in DOMAIN pipeline.tpc : pipeline.tpc[i] = "done"}

\* the API call of batch i failed: call_minimax_vision raised (its checks,
\* or RetryError after the last attempt) or the reply holds no text
ApiFailed(i) ==
    /\ pipeline.api[i] # ImportFailed
    /\ \/ pipeline.api[i].raised
       \/ pipeline.api[i].what \in {"error_payload", "no_content"}

\* chunk i exists, and its task has finished
IsChunk(i) == i \in DOMAIN pipeline.tpc
ChunkDone(i) == i \in DOMAIN pipeline.tpc /\ pipeline.tpc[i] = "done"

\* C11: with settings.concurrency >= 1, under a fair event loop and an API
\* whose every attempt returns or fails, process_images_pipeline eventually
\* returns, and every chunk eventually gets its permit, is dispatched and
\* completes
C11_PipelineReturns ==
    settings.concurrency >= 1 =>
        /\ <>(pipeline.pc = "done")
        /\ \A i \in 1..MaxFiles :
              [](IsChunk(i) => <>ChunkDone(i))

\* a finished run with one permit and three chunks, one of which was retried
C11_Witness ==
    /\ pipeline.pc = "done"
    /\ settings.concurrency = 1
    /\ Len(pipeline.batches) = 3
    /\ \A i \in 1..3 : pipeline.tpc[i] = "done"
    /\ \E i \in 1..3 : pipeline.attempts[i] = 2

\* C6: process_image_batch on a chunk of N images returns exactly N tuples,
\* one per image in chunk order, all with the same success flag and the same
\* text; on success the text is the one returned text
C6_OneOutcomePerChunk ==
    \A i \in Dispatched :
        LET r == pipeline.dispatch[i]
            batch == pipeline.batches[i]
        IN ~r.raised =>
              /\ Len(r.list) = Len(batch)
              /\ \A k \in 1..Len(batch) : r.list[k].path = batch[k]
              /\ \A k, m \in 1..Len(r.list) :
                    /\ r.list[k].success = r.list[m].success
                    /\ r.list[k].text = r.list[m].text
              /\ \A k \in 1..Len(r.list) :
                    r.list[k].success =>
                       /\ r.list[k].text.msg = "prompt"
                       /\ r.list[k].text.detail = pipeline.api[i].what
                       /\ pipeline.api[i].what \in {"content_a", "content_b"}

\* a chunk of two images got the text content_b twice, and a later chunk
\* failed
C6_Witness ==
    /\ Len(pipeline.batches) = 2
    /\ Dispatched = {1, 2}
    /\ Len(pipeline.batches[1]) = 2
    /\ Len(pipeline.dispatch[1].list) = 2
    /\ pipeline.dispatch[1].list[1].success
    /\ pipeline.dispatch[1].list[2].text.detail = "content_b"
    /\ ~pipeline.dispatch[2].list[1].success

RECURSIVE OffsetOf(_, _)
OffsetOf(batches, i) ==
    IF i <= 1 THEN 0 ELSE OffsetOf(batches, i - 1) + Len(batches[i - 1])

\* the batches that did not produce their prompt: the API call failed or
\* the dispatch raised
BatchFailed(i) == ApiFailed(i) \/ pipeline.api[i] = ImportFailed

\* C8: whichever batches fail or raise, process_images_pipeline returns the
\* tuples of all batches: failure tuples for every file of a failed batch,
\* and for every other batch the success tuples of its own reply, as if no
\* batch had failed
C8_PartialFailureTolerated ==
    (pipeline.pc = "done" /\ image_paths # <<>>) =>
        LET batches == pipeline.batches
            total == OffsetOf(batches, Len(batches) + 1)
        IN /\ Len(pipeline.all_results) = total
           /\ \A i \in 1..Len(batches) : \A k \in 1..Len(batches[i]) :
                 LET t == pipeline.all_results[OffsetOf(batches, i) + k]
                 IN /\ t.path = batches[i][k]
                    /\ BatchFailed(i) => t.success = FALSE
                    /\ ~BatchFailed(i) =>
                          t = [path |-> batches[i][k],
                               text |-> [msg |-> "prompt",
                                         detail |-> pipeline.api[i].what,
                                         cause |-> "None"],
                               success |-> TRUE]

\* three batches, the middle one failed, the outer ones got their own texts
C8_Witness ==
    /\ pipeline.pc = "done"
    /\ Len(pipeline.batches) = 3
    /\ BatchFailed(2)
    /\ Len(pipeline.all_results) = 3
    /\ pipeline.all_results[1].success
    /\ pipeline.all_results[1].text.detail = "content_a"
    /\ ~pipeline.all_results[2].success
    /\ pipeline.all_results[3].success
    /\ pipeline.all_results[3].text.detail = "content_b"

Distinct(s) == \A k, m \in 1..Len(s) : k # m => s[k] # s[m]

TuplesOf(f) ==
    {k \in 1..Len(pipeline.all_results) : pipeline.all_results[k].path = f}

\* C9: for pairwise distinct input files the returned list holds exactly one
\* tuple for every file that was not size-skipped and none for a
\* size-skipped file, whatever batches succeeded or failed
C9_OneTuplePerFile ==
    (pipeline.pc = "done" /\ Distinct(image_paths)) =>
        /\ \A f \in Range(image_paths) :
              Cardinality(TuplesOf(f)) = IF SizeSkipped(f) THEN 0 ELSE 1
        /\ \A k \in 1..Len(pipeline.all_results) :
              pipeline.all_results[k].path \in Range(image_paths)

\* three distinct files: one size-skipped, one in a batch that succeeded, one
\* in a batch that failed
C9_Witness ==
    /\ pipeline.pc = "done"
    /\ Len(image_paths) = 3
    /\ Distinct(image_paths)
    /\ \E f \in Range(image_paths) : SizeSkipped(f)
    /\ Len(pipeline.all_results) = 2
    /\ \E k \in 1..2 : pipeline.all_results[k].success
    /\ \E k \in 1..2 : ~pipeline.all_results[k].success

\* the batches whose process_image_batch is in flight: a request is
\* outstanding or the backoff sleep is running
InFlight ==
    {i \in DOMAIN pipeline.tpc : pipeline.tpc[i] \in {"inflight", "sleeping"}}

\* C10: at every moment at most settings.concurrency batches are in flight;
\* the batches in flight are exactly the handed-out permits, and a batch
\* waits only while no permit is free
C10_InFlightWithinConcurrency ==
    pipeline.pc = "gather" =>
        /\ Cardinality(InFlight) <= settings.concurrency
        /\ Cardinality(InFlight) + Cardinality(pipeline.semaphore.granted)
             = settings.concurrency - pipeline.semaphore.value
        /\ (\E i \in DOMAIN pipeline.tpc : pipeline.tpc[i] = "waiting")
              => pipeline.semaphore.value = 0

\* concurrency 2 and three batches: two are in flight, the third waits
C10_Witness ==
    /\ settings.concurrency = 2
    /\ Len(pipeline.batches) = 3
    /\ Cardinality(InFlight) = 2
    /\ \E i \in DOMAIN pipeline.tpc : pipeline.tpc[i] = "waiting"

\* the last HTTP attempt of batch i returned a JSON body without text
BadReply(i) == pipeline.last_reply[i] \in BadResponses

\* the failure tuples process_image_batch returns for a body without text
ExtractFailure(i) ==
    [k \in 1..Len(pipeline.batches[i]) |->
        ResultTuple(pipeline.batches[i][k],
                    ApiErrorText("ValueError", pipeline.last_reply[i]), FALSE)]

\* C17 as stated: a chunk whose reply holds no text is reported as failed
\* only after max_retries + 1 attempts
C17_MalformedReplyRetried ==
    \A i \in Dispatched :
        BadReply(i) => pipeline.attempts[i] = settings.retry_max + 1

\* C17, amended: a reply without text is not retried; the attempt that
\* returned it, any of the max_retries + 1, is the last one, and the chunk is
\* reported as failed at once.  Only a request that raises is retried, and
\* RetryError comes after exactly max_retries + 1 attempts.
C17_MalformedReplyNotRetried ==
    \A i \in DOMAIN pipeline.tpc :
        /\ BadReply(i) =>
              /\ pipeline.tpc[i] = "done"
              /\ pipeline.api[i] = ApiReturned(pipeline.last_reply[i])
              /\ pipeline.dispatch[i] = ReturnedList(ExtractFailure(i))
              /\ pipeline.attempts[i] \in 1..(settings.retry_max + 1)
        /\ (pipeline.tpc[i] = "done" /\ pipeline.api[i].what = "RetryError") =>
              /\ pipeline.attempts[i] = settings.retry_max + 1
              /\ pipeline.last_reply[i] \in RequestErrors

\* retry_max = 1: one chunk failed on an error payload after a single
\* attempt, another ran out of retries after two
C17_Witness ==
    /\ settings.retry_max = 1
    /\ \E i \in Dispatched :
          /\ pipeline.last_reply[i] = "error_payload"
          /\ pipeline.attempts[i] = 1
          /\ ~pipeline.dispatch[i].list[1].success
    /\ \E i \in Dispatched :
          /\ pipeline.api[i].what = "RetryError"
          /\ pipeline.attempts[i] = 2

RECURSIVE SumAttempts(_)
SumAttempts(n) == IF n <= 0 THEN 0 ELSE pipeline.attempts[n] + SumAttempts(n - 1)

RECURSIVE SumCalls(_)
SumCalls(n) == IF n <= 0 THEN 0 ELSE Len(pipeline.api_calls[n]) + SumCalls(n - 1)

\* C18 as stated: in a finished run every chunk had exactly one call of
\* call_minimax_vision, with all its images, and at most retry_max + 1
\* attempts, whatever the outcomes
C18_OneCallPerChunk ==
    pipeline.pc = "done" =>
        /\ \A i \in DOMAIN pipeline.batches :
              /\ pipeline.api_calls[i] = <<pipeline.batches[i]>>
              /\ pipeline.attempts[i] <= settings.retry_max + 1
        /\ SumCalls(Len(pipeline.batches)) = Len(pipeline.batches)
        /\ SumAttempts(Len(pipeline.batches))
              <= Len(pipeline.batches) * (settings.retry_max + 1)

\* the tasks that have not reached process_image_batch yet
NotStarted(i) == pipeline.tpc[i] \in {"created", "waiting", "granted"}

\* C18, amended: when the api module imports, a chunk has no call before its
\* dispatch and exactly one call, with all its images, from then on, and
\* never more than retry_max + 1 attempts, so a finished run made
\* total_chunks calls and at most total_chunks * (retry_max + 1) attempts;
\* when the import fails, no call and no attempt is made
C18_OneCallPerChunkIfImported ==
    /\ \A i \in DOMAIN pipeline.tpc :
          /\ pipeline.api_calls[i] =
                IF pipeline.api_importable /\ ~NotStarted(i)
                THEN <<pipeline.batches[i]>>
                ELSE <<>>
          /\ pipeline.attempts[i] <= settings.retry_max + 1
          /\ ~pipeline.api_importable => pipeline.attempts[i] = 0
    /\ (pipeline.pc = "done" /\ pipeline.api_importable) =>
          /\ SumCalls(Len(pipeline.batches)) = Len(pipeline.batches)
          /\ SumAttempts(Len(pipeline.batches))
                <= Len(pipeline.batches) * (settings.retry_max + 1)

\* a finished run of two chunks, the first of two images passed together in
\* one call, with three attempts in all
C18_Witness ==
    /\ pipeline.pc = "done"
    /\ pipeline.api_importable
    /\ Len(pipeline.batches) = 2
    /\ Len(pipeline.batches[1]) = 2
    /\ pipeline.api_calls[1] = <<pipeline.batches[1]>>
    /\ SumCalls(2) = 2
    /\ SumAttempts(2) = 3

\* C19: whenever progress(completed, total) is invoked, completed is the
\* number of chunks that have finished at that moment and total the number
\* of chunks
C19_ProgressTracksCompletion ==
    [][\A k \in 1..Len(pipeline'.progress) :
          k > Len(pipeline.progress) =>
             pipeline'.progress[k]
                = <<Cardinality(Dispatched'), Len(pipeline'.batches)>>]_vars

PathsOf(results) == [k \in 1..Len(results) |-> results[k].path]

\* C33: the result of a batch that is through sits in the slot of the
\* batch and lists the files of the batch in their order, whichever
\* batches are through by then; the returned list lists the files of the
\* batches, batch after batch, which is the input without its size-skipped
\* files, in input order
C33_OutputInInputOrder ==
    /\ \A i \in Dispatched :
          PathsOf(pipeline.batch_results[i].list) = pipeline.batches[i]
    /\ pipeline.pc = "done" =>
          /\ PathsOf(pipeline.all_results) = Concat(pipeline.batches)
          /\ PathsOf(pipeline.all_results)
                = SelectSeq(image_paths, NotSizeSkipped)

\* the second of two batches, three files between them, is through while
\* the first is still in flight or backing off
C33_Witness ==
    /\ pipeline.pc = "gather"
    /\ Len(pipeline.batches) >= 2
    /\ pipeline.tpc[2] = "done"
    /\ pipeline.tpc[1] \in {"inflight", "sleeping"}
    /\ Len(pipeline.batches[1]) + Len(pipeline.batches[2]) >= 3

\* an image of batch i fails validate_image_file at dispatch time
HasInvalidImage(i) ==
    \E k \in 1..Len(pipeline.batches[i]) :
        ~validate_image_file(pipeline.batches[i][k])

\* C37: for a batch with an invalid image no request is ever sent and
\* retry_async is never entered (call_minimax_vision is called once at
\* most and raises ValueError at its image check), and once the batch is
\* over every image of it, valid or not, has a failure tuple, in the result
\* of the batch and in the list the pipeline returns
C37_InvalidImageFailsChunk ==
    \A i \in DOMAIN pipeline.tpc :
        HasInvalidImage(i) =>
            /\ pipeline.attempts[i] = 0
            /\ pipeline.tpc[i] \notin {"inflight", "sleeping"}
            /\ pipeline.frame[i] = IdleRetry
            /\ Len(pipeline.api_calls[i]) <= 1
            /\ pipeline.tpc[i] = "done" =>
                  /\ (pipeline.api_importable /\ settings.valid) =>
                        pipeline.api[i] = ApiRaised("ValueError", "invalid_image")
                  /\ PathsOf(pipeline.batch_results[i].list) = pipeline.batches[i]
                  /\ \A k \in 1..Len(pipeline.batches[i]) :
                        ~pipeline.batch_results[i].list[k].success
            /\ pipeline.pc = "done" =>
                  \A k \in 1..Len(pipeline.batches[i]) :
                     \E n \in 1..Len(pipeline.all_results) :
                        /\ pipeline.all_results[n].path = pipeline.batches[i][k]
                        /\ ~pipeline.all_results[n].success

\* a finished run with valid settings in which a batch held a valid and a
\* missing image: its one call raised at the image check, no request was
\* sent, and the valid image has a failure tuple
C37_Witness ==
    /\ pipeline.pc = "done"
    /\ pipeline.api_importable /\ settings.valid
    /\ \E i \in DOMAIN pipeline.tpc :
          /\ HasInvalidImage(i)
          /\ pipeline.api_calls[i] = <<pipeline.batches[i]>>
          /\ pipeline.attempts[i] = 0
          /\ \E k \in 1..Len(pipeline.batches[i]) :
                /\ validate_image_file(pipeline.batches[i][k])
                /\ \E n \in 1..Len(pipeline.all_results) :
                      /\ pipeline.all_results[n].path = pipeline.batches[i][k]
                      /\ ~pipeline.all_results[n].success


---------------------------------------------------------------------------
(* Properties of the manifest (SpecManifest) *)

\* C21: the manifest round-trips exactly: save_to_csv followed by
\* load_from_csv gives the same records in the same order with the same
\* filepath, prompt_en, prompt_cn, status and retry_cnt
C21_RoundTrip ==
    FieldsOf(load_from_csv(save_to_csv(manifest)).records)
        = FieldsOf(manifest.records)

\* C22: no two records of the manifest have the same filepath
C22_FilepathsUnique ==
    \A j, k \in 1..Len(manifest.records) :
        manifest.records[j].filepath = manifest.records[k].filepath => j = k

\* the rows of a file after its header, as csv.DictReader hands them out
DataRows(file) ==
    LET rows == ReadRows(UniversalNewlines(file.text), "START_RECORD",
                         <<>>, <<>>, <<>>)
    IN IF rows = <<>> THEN <<>> ELSE Tail(rows)
HeaderOf(file) ==
    Head(ReadRows(UniversalNewlines(file.text), "START_RECORD",
                  <<>>, <<>>, <<>>))

\* the status of the row is one of the three literals (pending where the
\* file has no status column) and its retry_cnt reads as a base-10 integer
\* (0 where the file has no retry_cnt column)
RowLoads(names, row) ==
    LET status == Get(names, row, fieldnames[4], <<"pending">>)
        retry_cnt == Get(names, row, fieldnames[5], <<"0">>)
    IN /\ status \in {<<<<"pending">>>>, <<<<"approved">>>>, <<<<"rejected">>>>}
       /\ retry_cnt # <<>> /\ int(retry_cnt[1]).ok

\* C36: every record of the manager has one of the three statuses, and
\* load_from_csv of an existing file leaves one record per row whose status
\* is one of the three literals and whose retry_cnt is a base-10 integer,
\* in the order of the file, with the filepath, status and retry_cnt of
\* its row
C36_LoadDropsBadRows ==
    [][/\ \A k \in 1..Len(manifest'.records) :
             manifest'.records[k].status \in {PENDING, APPROVED, REJECTED}
       /\ (ManifestLoad /\ manifest.file.exists /\ manifest.file.text # <<>>) =>
             LET names == HeaderOf(manifest.file)
                 Loads(row) == RowLoads(names, row)
                 good == SelectSeq(DataRows(manifest.file), Loads)
             IN /\ Len(manifest'.records) = Len(good)
                /\ \A k \in 1..Len(good) :
                      /\ HasKey(names, fieldnames[1]) =>
                            manifest'.records[k].filepath = good[k][1]
                      /\ <<StatusValue(manifest'.records[k].status)>>
                            = Get(names, good[k], fieldnames[4], <<"pending">>)
                      /\ manifest'.records[k].retry_cnt
                            = int(Get(names, good[k], fieldnames[5],
                                      <<"0">>)[1]).value]_vars

\* a file of two rows, the first with a status that is no literal, loaded:
\* the manager holds the record of the second row only
C36_Witness ==
    /\ manifest.file.exists
    /\ Len(DataRows(manifest.file)) = 2
    /\ DataRows(manifest.file)[1][4] = <<"Pending">>
    /\ Len(manifest.records) = 1
    /\ manifest.records[1].filepath = <<"y", LF>>
    /\ manifest.records[1].status = REJECTED


---------------------------------------------------------------------------
(* Properties of one record's life (SpecLife) *)

\* C23: across add_or_update_record (which is also what the reconciliation
\* of pipeline results calls), update_record_status, increment_retry_count,
\* the regeneration results, approve and reject, every record stays where
\* it is and its retry_cnt after the step is at least its value before
C23_RetryNeverDecreases ==
    [][\A k \in 1..Len(manifest.records) :
          /\ k <= Len(manifest'.records)
          /\ manifest'.records[k].filepath = manifest.records[k].filepath
          /\ manifest'.records[k].retry_cnt >= manifest.records[k].retry_cnt]_vars

\* a record that was regenerated and then approved with the new text
C23_Witness ==
    \E k \in 1..Len(manifest.records) :
        /\ manifest.records[k].retry_cnt > 0
        /\ manifest.records[k].status = APPROVED
        /\ manifest.records[k].prompt_en = <<"b">>
        /\ manifest.records[k].temp_new_prompt = NoAttr

---------------------------------------------------------------------------
(* Properties of the review handlers (SpecReview) *)

\* the step in which a regeneration thread delivers the result for the
\* image it was started for, and the records involved: the one the image
\* was taken from and the one the callback finds under the relative path
ResultDelivered ==
    /\ gui.regen_todo # <<>>
    /\ gui'.regen_todo = Tail(gui.regen_todo)
RegeneratedRecord == Head(gui.regen_todo)
FoundRecord ==
    FirstWith(manifest.records,
              PathStr(manifest.records[RegeneratedRecord].filepath))

\* C24: every regeneration result, success or failure, adds exactly one to
\* the retry_cnt of the record the callback finds for the image
C24_EveryAttemptCounts ==
    [][(ResultDelivered /\ FoundRecord # 0) =>
          manifest'.records[FoundRecord].retry_cnt
              = manifest.records[FoundRecord].retry_cnt + 1]_vars

\* C25: a reject of the current record, pending or approved, leaves the
\* record rejected
C25_RejectMarksRejected ==
    [][(/\ GuiReject
        /\ gui.current_record # 0
        /\ manifest.records[gui.current_record].status \in {PENDING, APPROVED})
          => manifest'.records[gui.current_record].status = REJECTED]_vars

\* C26: an approve of the current record with a non-empty text in one of
\* the two editors leaves the record approved, with the stripped text of
\* the generated-prompt editor as prompt_en if that is not empty and the
\* stripped text of the current-prompt editor otherwise, without staged
\* candidate, and the file holding the records as they now are; with both
\* texts empty neither the manifest nor the window changes
C26_Approve ==
    [][(GuiApprove /\ gui.current_record # 0) =>
          LET k == gui.current_record
              staged == strip(gui.generated_prompt_edit)
              current == strip(gui.current_prompt_edit)
          IN IF staged = <<>> /\ current = <<>>
             THEN manifest' = manifest /\ gui' = gui
             ELSE /\ manifest'.records[k].status = APPROVED
                  /\ manifest'.records[k].prompt_en
                        = IF staged # <<>> THEN staged ELSE current
                  /\ manifest'.records[k].temp_new_prompt = NoAttr
                  /\ manifest'.file = FileWith(CsvText(manifest'.records))]_vars

\* the current record, regenerated once, approved with the regenerated
\* text and saved, the buttons disabled again
C26_Witness ==
    /\ manifest.file = FileWith(CsvText(manifest.records))
    /\ \E k \in 1..Len(manifest.records) :
          /\ manifest.records[k].status = APPROVED
          /\ manifest.records[k].prompt_en = <<"b">>
          /\ manifest.records[k].retry_cnt = 1
          /\ manifest.records[k].temp_new_prompt = NoAttr
          /\ gui.current_record = k
          /\ ~gui.review_enabled

C35_RejectKeepsPrompt ==
    [][(GuiReject /\ gui.current_record # 0) =>
          LET k == gui.current_record
              current == strip(gui.current_prompt_edit)
              edited == current # <<>> /\ current # manifest.records[k].prompt_en
          IN /\ manifest'.records[k].prompt_en
                   = IF edited THEN current ELSE manifest.records[k].prompt_en
             /\ manifest'.records[k].temp_new_prompt = NoAttr
             /\ gui'.generated_prompt_edit = <<>>
             /\ \A r \in 1..Len(manifest.records) :
                   r # k => manifest'.records[r] = manifest.records[r]]_vars

\* the current record after its staged candidate was rejected: regenerated
\* once, the old prompt kept, nothing staged, the buttons disabled
C35_Witness ==
    \E k \in 1..Len(manifest.records) :
        /\ gui.current_record = k
        /\ manifest.records[k].retry_cnt = 1
        /\ manifest.records[k].prompt_en = <<"a">>
        /\ manifest.records[k].status = PENDING
        /\ manifest.records[k].temp_new_prompt = NoAttr
        /\ gui.generated_prompt_edit = <<>>
        /\ gui.current_prompt_edit = <<"a">>
        /\ ~gui.review_enabled


---------------------------------------------------------------------------
(* Properties of the batch runs (SpecBatch) *)

\* the result tuples a step of BatchProcessingThread or of run_processing
\* brings in
NewResults ==
    {n \in 1..Len(worker'.results) :
        n > Len(worker.results) /\ worker.kind \in {"process", "cli"}}

\* the record a result tuple is for: BatchProcessingThread holds the record
\* itself, run_processing finds it under the path text of the image
RecordOf(result) ==
    IF worker.kind = "cli"
    THEN FirstWith(manifest'.records,
                   PathStr(manifest.records[result.k].filepath))
    ELSE result.k

\* C28: after a step that brings in pipeline results, the record of every
\* success tuple holds the returned text as prompt_en and is pending, and
\* no record has become approved or rejected
C28_ReviewGate ==
    [][/\ \A n \in NewResults :
            worker'.results[n].success =>
                LET j == RecordOf(worker'.results[n])
                IN /\ j # 0
                   /\ manifest'.records[j].prompt_en = worker'.results[n].text
                   /\ manifest'.records[j].status = PENDING
       /\ NewResults # {} =>
            \A r \in 1..Len(manifest.records) :
                manifest'.records[r].status \in {APPROVED, REJECTED} =>
                    manifest'.records[r].status = manifest.records[r].status]_vars

CliRunStep ==
    worker.kind = "cli" /\ worker.pc = "pipeline" /\ worker'.pc = "done"

\* record r is the one whose file a success tuple of the run is for
HasSuccessTuple(r) ==
    \E n \in 1..Len(worker'.results) :
        worker'.results[n].k = r /\ worker'.results[n].success

\* C34: a run of run_processing dispatches pending records only, and every
\* record without a success tuple (failed chunk, size-skipped file,
\* approved or rejected before the run) keeps its five fields
C34_CliRunFrame ==
    [][CliRunStep =>
         /\ \A n \in 1..Len(worker.items) :
               manifest.records[worker.items[n]].status = PENDING
         /\ \A r \in 1..Len(manifest.records) :
               ~HasSuccessTuple(r) =>
                   Fields(manifest'.records[r]) = Fields(manifest.records[r])]_vars

---------------------------------------------------------------------------
(* Properties of AsyncRateLimiter (SpecRateFair) *)

\* C38: every call of acquire returns: a caller that waits for the window
\* or for the lock is eventually granted
C38_AcquireReturns ==
    \A c \in Callers :
        (rate.pc[c] \in {"sleeping", "waiting"}) ~> (rate.pc[c] = "returned")

====
